---- MODULE Spec2Model ----
(***************************************************************************)
(* EBSD-GUI: the background Job Execution Manager (sendToJobManager, the   *)
(* worker pool, the per-job ThreadedOutput sink and the process-wide       *)
(* stdout/stderr redirection) as a state machine.                          *)
(*                                                                         *)
(* utils/threads/worker.py and utils/threads/worker_widget.py are not part *)
(* of the sources at hand: the worker's run and the widget's handlers are  *)
(* modelled from the specification (sections 3, 4.1, 5, 6, 9).  The        *)
(* callers (run_refinement, run_processing), ThreadedOutput and the        *)
(* redirect_stdout/redirect_stderr scopes are modelled from the sources.   *)
(***************************************************************************)
EXTENDS Integers, Sequences, FiniteSets, TLC

\* ------------------------------------------------------------------ bounds
\* Jobs submitted in one run of the pool model (PoolSpec).
MaxJobs == 3
\* Jobs submitted in one run of the output-channel model (OutputSpec).
MaxOutJobs == 2
\* Largest maxThreadCount of the pool that Init may choose.
MaxThreads == 2
\* Pieces of text written by all callables together (OutputSpec).
MaxWrites == 1
\* Most columns of the navigation grid of a prior crystal map (RefineSpec).
MaxCols == 2
\* Longest side of a signal shape, and largest Binning entry (BinningSpec).
MaxSide == 7
\* Parts after the first "_" in the name of a pattern file (ProcessingSpec).
MaxTags == 1
\* Files picked in one file dialog, rows selected for one removal (DialogSpec).
MaxPick == 1
MaxSelect == 2
\* Changes the user makes in the pattern processing dialog (a step box, the
\* Browse button), and the jobs the dialog submits (ProcessingSpec).
MaxClicks == 2
MaxPpJobs == 1

\* The two callers of sendToJobManager in the sources.
Callers == {"run_refinement", "run_processing"}
\* File names a dialog can be opened on (xmap_name / pattern_name).
Names == {"a.h5", "b.h5"}
\* PoolSpec opens every dialog on the same file.
PoolNames == {"a.h5"}
\* Errors a callable can raise.
Errors == {"ValueError", "OSError"}
\* OutputSpec raises one kind of error only.
OutErrors == {"ValueError"}
\* The streams a callable writes to: print() and the error stream.
Streams == {"out", "err"}

NoError == "none"

VARIABLES
    jobs,       \* sequence of Job records, in submission order
    queue,      \* ids of Queued jobs waiting for a thread, FIFO
    limit,      \* the pool's maxThreadCount
    busy,       \* the pool's activeThreadCount
    chan,       \* process-wide sys.stdout / sys.stderr: [out, err]
    events,     \* finished/error signals posted to the GUI thread, in order
    notified,   \* per job: the terminal notifications the observer received
    delivered,  \* text forwarded to the observer's log view, tagged
    console,    \* text that reached the start-up console instead
    uncaught,   \* jobs whose error escaped the worker's run
    gui_saved,  \* stdout targets remembered by the open redirect_stdout blocks of signal_loader
    entering,   \* whether the newest of these blocks has remembered its target and not yet set its own
    lost        \* text emitted on a ThreadedOutput nobody is connected to

\* One call of RefineSetupDialog.refine_orientations.
VARIABLES
    xmap,            \* the prior crystal map handed to the run
    master_patterns, \* keys of the master_patterns dict, in insertion order
    refine_calls,    \* the calls of s.refine_orientation made so far
    ref_xmaps,       \* the ref_xmaps dict: per key the partial map returned
    merge_calls,     \* number of partials of every merge_crystal_maps call
    ref_xmap,        \* the run's result map
    epc,             \* where the run is
    eraised,         \* the exception that ended the run
    options,         \* the options the run read from the dialog
    det_shape,       \* signal shape the detector is built with
    written,         \* files written by io.save, in order
    products,        \* derived products attempted, in order
    printed,         \* lines the run printed after the merge
    submitted        \* what run_refinement handed to the job manager

\* The RefineSetupDialog.
VARIABLES
    signal_shape,    \* axes_manager.signal_shape of the pattern file
    binning_entry,   \* the Binning entry of the project settings
    combo,           \* current text of comboBoxBinning
    boxes,           \* checkBoxPhase / checkBoxOrientation / checkBoxNCC
    phases,          \* names in self.phases, in insertion order
    mp_paths,        \* keys of self.mp_paths, in insertion order
    table,           \* names shown in the rows of tableWidgetPhase
    xmap_file,       \* the crystal map behind self.xmap_path
    xmap_rows,       \* row count of tableWidgetXmap
    ok_enabled,      \* whether the OK button is enabled
    xmap_name,       \* self.xmap_name, the file name behind self.xmap_path
    phase_colors,    \* colour of every phase of self.phases, in the same order
    entries,         \* X/Y/Z star, Convention and Colors of the settings files
    geometry,        \* patternCenterX/Y/Z and comboBoxConvention
    colors,          \* self.colors, the palette
    ref_kwargs       \* text of lineEditRefKwargs

\* The PatternProcessingDialog and its apply_processing job.
VARIABLES
    filenamebase,    \* self.filenamebase, split at "_"
    already_indexed, \* self.already_indexed
    step_boxes,      \* staticBackgroundBox / dynamicBackgroundBox / averageBox checked
    pp_ok,           \* whether the dialog's OK button is enabled
    filename_edit,   \* text of filenameEdit without ".h5", split at "_"
    working_dir,     \* self.working_dir
    pp_open,         \* whether the dialog is open
    pp_ask,          \* whether the warning box of run_processing is open
    save_path,       \* self.save_path: folder and file name
    gui_at,          \* where the GUI thread is inside a slot of the dialog
    pp_read,         \* apply_processing: folder and file name as it read them
    clicks,          \* changes the user has made in the dialog so far
    ppc,             \* where the apply_processing job is
    applied,         \* per step reached: the box as read, and whether it was applied
    saved_as         \* <<directory, file>> dataset.save wrote to

jobvars == <<jobs, queue, limit, busy, chan, events, notified, delivered, console, uncaught, gui_saved, entering, lost>>

engvars == <<xmap, master_patterns, refine_calls, ref_xmaps, merge_calls, ref_xmap, epc, eraised,
             options, det_shape, written, products, printed, submitted>>

ppvars == <<filenamebase, already_indexed, step_boxes, pp_ok, filename_edit, working_dir, pp_open, pp_ask,
           save_path, gui_at, pp_read, clicks, ppc, applied, saved_as>>

dlgvars == <<signal_shape, binning_entry, combo, boxes, phases, mp_paths, table, xmap_file, xmap_rows, ok_enabled,
             xmap_name, phase_colors, entries, geometry, colors, ref_kwargs, ppvars>>

vars == <<jobs, queue, limit, busy, chan, events, notified, delivered, console, uncaught, gui_saved, entering, lost,
          xmap, master_patterns, refine_calls, ref_xmaps, merge_calls, ref_xmap, epc, eraised,
          options, det_shape, written, products, printed, submitted,
          signal_shape, binning_entry, combo, boxes, phases, mp_paths, table, xmap_file, xmap_rows, ok_enabled,
          xmap_name, phase_colors, entries, geometry, colors, ref_kwargs,
          filenamebase, already_indexed, step_boxes, pp_ok, filename_edit, working_dir, pp_open, pp_ask,
          save_path, gui_at, pp_read, clicks, ppc, applied, saved_as>>

\* No crystal map.
NoMap == [shape |-> <<0, 0>>, phases |-> {}, pix |-> <<>>]

\* No options read yet.
NoOptions ==
    [ binning |-> "None", phase |-> FALSE, orientation |-> FALSE, ncc |-> FALSE,
      pc |-> <<0, 0, 0>>, convention |-> "", ref_kwargs |-> "" ]

\* Nothing was handed to the job manager yet.
NoSubmission == [options |-> NoOptions, xmap_name |-> ""]

\* A settings entry that is not there: SettingFile.read raises.
MissingEntry == "missing"

\* Settings files without pattern centre and Convention of the project, and
\* without Colors of the program.
NoEntries ==
    [ x |-> MissingEntry, y |-> MissingEntry, z |-> MissingEntry,
      convention |-> MissingEntry, global_convention |-> "TSL", colors |-> MissingEntry ]

\* self.colors as __init__ sets it, lines 87-92.
DefaultColors == <<"blue", "orange", "lime", "yellow">>

\* Texts the Colors entry of the program settings can hold, named by the
\* list they spell: no entry, a text json cannot parse, a list of two
\* colours, a list of one.
ColorsEntries == {MissingEntry, "abc", "red,green", "red"}

\* load_parameters, lines 155-158: self.colors is json.loads of the entry;
\* when reading or parsing raises it stays what __init__ set.
ColorsAfterLoad(e) ==
    IF e.colors = "red,green" THEN <<"red", "green">>
    ELSE IF e.colors = "red" THEN <<"red">>
    ELSE DefaultColors

\* The values of patternCenterX/Y/Z in the dialog as setupUi leaves it, in
\* hundredths.
UiPatternCenter == <<50, 20, 50>>

\* No refinement run is under way.
EngineIdle ==
    /\ xmap = NoMap
    /\ master_patterns = <<>>
    /\ refine_calls = <<>>
    /\ ref_xmaps = <<>>
    /\ merge_calls = <<>>
    /\ ref_xmap = NoMap
    /\ epc = "idle"
    /\ eraised = NoError
    /\ options = NoOptions
    /\ det_shape = <<0, 0>>
    /\ written = <<>>
    /\ products = <<>>
    /\ printed = <<>>
    /\ submitted = NoSubmission

\* for the steps of pattern processing, in the order of apply_processing
Steps == <<"sb", "db", "anp">>

StepSet == {Steps[i] : i \in DOMAIN Steps}

\* No pattern processing dialog is open.
ProcessingIdle ==
    /\ filenamebase = <<"scan">>
    /\ already_indexed = [k \in StepSet |-> FALSE]
    /\ step_boxes = [k \in StepSet |-> FALSE]
    /\ pp_ok = FALSE
    /\ filename_edit = <<"scan">>
    /\ working_dir = "p"
    /\ pp_open = FALSE
    /\ pp_ask = FALSE
    /\ save_path = <<"p", <<"scan">>>>
    /\ gui_at = "idle"
    /\ pp_read = <<"", <<>>>>
    /\ clicks = 0
    /\ ppc = "idle"
    /\ applied = <<>>
    /\ saved_as = <<"none">>

\* A dialog on a 1 x 1 signal, nothing loaded.
DialogIdle ==
    /\ signal_shape = <<1, 1>>
    /\ binning_entry = "missing"
    /\ combo = "None"
    /\ boxes = [phase |-> FALSE, orientation |-> FALSE, ncc |-> FALSE]
    /\ phases = <<>>
    /\ mp_paths = <<>>
    /\ table = <<>>
    /\ xmap_file = NoMap
    /\ xmap_rows = 0
    /\ ok_enabled = FALSE
    /\ xmap_name = ""
    /\ phase_colors = <<>>
    /\ geometry = [pc |-> UiPatternCenter, convention |-> "TSL"]
    /\ ref_kwargs = ""
    /\ ProcessingIdle

\* The settings files hold none of the entries load_parameters reads.
NoSettings ==
    /\ entries = NoEntries
    /\ colors = ColorsAfterLoad(entries)

JobIds == DOMAIN jobs

\* ------------------------------------------------- output destinations
\* main.py: redirect_stdout(APP.console), redirect_stderr(Redirect(APP.console.errorwrite))
StartupChannel ==
    [out |-> [to |-> "console", job |-> 0], err |-> [to |-> "console", job |-> 0]]

\* The per-job ThreadedOutput, installed for both streams.
SinkOf(j) == [to |-> "sink", job |-> j]

SinkChannel(j) == [out |-> SinkOf(j), err |-> SinkOf(j)]

\* contextlib.redirect_stdout.__enter__: remember the stream's present
\* target, then set the new one.  Returns <<saved, channel>>.
RedirectEnter(current, new) == <<current, new>>

\* contextlib.redirect_stdout.__exit__: put back what __enter__ remembered,
\* whatever the stream holds now.
RedirectExit(current, saved) == saved

\* A ThreadedOutput made by crystalMap.__init__ or crystalMap.phase_map:
\* nothing is connected to its signals.
Unconnected == [to |-> "unconnected", job |-> 0]

\* crystalMap.__init__ with compute_all opens one redirect_stdout block and
\* calls phase_map, which opens another, inside it.
MaxNesting == 2

\* ThreadedOutput.write / ThreadedOutput.errorwrite: which signal carries the line.
ThreadedOutputSignal(stream) == IF stream = "out" THEN "outputLine" ELSE "outputError"

\* ---------------------------------------------------------------- callers
\* Mutant: run_refinement submitting with allow_cleanup left on.
RefineAllowCleanup_On == TRUE
\* run_refinement: allow_cleanup=False
RefineAllowCleanup == FALSE
\* Mutant: run_refinement submitting with allow_logging left on.
RefineAllowLogging_On == TRUE
\* run_refinement: allow_logging=False
RefineAllowLogging == FALSE
\* run_processing passes neither flag: the submission interface's defaults.
DefaultAllowCleanup == TRUE
DefaultAllowLogging == TRUE

AllowCleanupOf(caller) ==
    IF caller = "run_refinement" THEN RefineAllowCleanup ELSE DefaultAllowCleanup

AllowLoggingOf(caller) ==
    IF caller = "run_refinement" THEN RefineAllowLogging ELSE DefaultAllowLogging

\* job_title=f"Refine orientations {self.xmap_name}" / f"SN Improvement {self.pattern_name}"
TitleOf(caller, name) ==
    IF caller = "run_refinement" THEN <<"Refine orientations", name>>
    ELSE <<"SN Improvement", name>>

\* output_path=self.xmap_dir, the folder of the crystal map, for
\* run_refinement; os.path.join(self.working_dir, filenameEdit.text()) for
\* run_processing.
OutputPathOf(caller, name, dir, file) ==
    IF caller = "run_refinement" THEN <<"xmap_dir", name>>
    ELSE <<dir, file>>

FuncOf(caller) ==
    IF caller = "run_refinement" THEN "refine_orientations" ELSE "apply_processing"

\* The Job a caller's sendToJobManager call creates.
NewJob(caller, name, dir, file) ==
    [ caller       |-> caller,
      func         |-> FuncOf(caller),
      title        |-> TitleOf(caller, name),
      outputPath   |-> OutputPathOf(caller, name, dir, file),
      allowCleanup |-> AllowCleanupOf(caller),
      allowLogging |-> AllowLoggingOf(caller),
      state        |-> "Queued",
      pc           |-> "queued",
      raised       |-> NoError,
      reason       |-> NoError,
      saved        |-> StartupChannel,
      installed    |-> FALSE,
      nw           |-> 0,
      released     |-> FALSE ]

\* -------------------------------------------------------------------- Init
Init ==
    /\ jobs = <<>>
    /\ queue = <<>>
    /\ limit \in 1..MaxThreads
    /\ busy = 0
    /\ chan = StartupChannel
    /\ events = <<>>
    /\ notified = <<>>
    /\ delivered = {}
    /\ console = {}
    /\ uncaught = {}
    /\ gui_saved = <<>>
    /\ entering = FALSE
    /\ lost = {}
    /\ EngineIdle
    /\ DialogIdle
    /\ NoSettings

\* ------------------------------------------------------------------ submit
\* sendToJobManager(...): never blocks; the job is Queued on the pool.
Submit(caller, name, dir, file) ==
    /\ jobs' = Append(jobs, NewJob(caller, name, dir, file))
    /\ queue' = Append(queue, Len(jobs) + 1)
    /\ notified' = Append(notified, <<>>)
    /\ UNCHANGED <<limit, busy, chan, events, delivered, console, uncaught, gui_saved, entering, lost>>

\* ------------------------------------------------------------ worker pool
\* Mutant: an off-by-one in the pool's admission test.
PoolHasFreeThread_OffByOne == busy <= limit

\* QThreadPool: a runnable starts when activeThreadCount < maxThreadCount.
PoolHasFreeThread == busy < limit

\* QThreadPool: the queued runnable that is started next.
NextToStart == Head(queue)

StateAfterPickup == "Running"

\* A worker thread picks the job up (Queued -> Running) and, before the
\* callable, with allowLogging installs the job's sink as the process-wide
\* stdout/stderr (the with-statement's __enter__).
Start(j) ==
    /\ queue # <<>>
    /\ j = NextToStart
    /\ PoolHasFreeThread
    /\ jobs[j].pc = "queued"
    /\ IF jobs[j].allowLogging
       THEN LET r == RedirectEnter(chan, SinkChannel(j))
            IN /\ jobs' = [jobs EXCEPT ![j].state = StateAfterPickup,
                                       ![j].saved = r[1], ![j].installed = TRUE,
                                       ![j].pc = "call"]
               /\ chan' = r[2]
       ELSE /\ jobs' = [jobs EXCEPT ![j].state = StateAfterPickup, ![j].pc = "call"]
            /\ chan' = chan
    /\ queue' = SelectSeq(queue, LAMBDA i : i # j)
    /\ busy' = busy + 1
    /\ UNCHANGED <<limit, events, notified, delivered, console, uncaught, gui_saved, entering, lost>>

\* crystalMap.__init__ (compute_all) or crystalMap.phase_map enters its
\* with redirect_stdout(ThreadedOutput()) block on the GUI thread.
\* __enter__ is two statements, between which a worker can run: it
\* remembers what sys.stdout holds, then sets sys.stdout, and only
\* sys.stdout, to a sink nobody listens to.
PhaseMapEnter ==
    /\ \/ /\ ~entering
          /\ Len(gui_saved) < MaxNesting
          /\ gui_saved' = Append(gui_saved, RedirectEnter(chan.out, Unconnected)[1])
          /\ entering' = TRUE
          /\ UNCHANGED chan
       \/ /\ entering
          /\ chan' = [chan EXCEPT !.out = RedirectEnter(gui_saved[Len(gui_saved)], Unconnected)[2]]
          /\ entering' = FALSE
          /\ UNCHANGED gui_saved
    /\ UNCHANGED <<jobs, queue, limit, busy, events, notified, delivered, console, uncaught, lost>>

\* The innermost open block of signal_loader is left: sys.stdout is set to
\* what the block remembered when it was entered.
PhaseMapExit ==
    /\ ~entering
    /\ gui_saved # <<>>
    /\ chan' = [chan EXCEPT !.out = RedirectExit(chan.out, gui_saved[Len(gui_saved)])]
    /\ gui_saved' = SubSeq(gui_saved, 1, Len(gui_saved) - 1)
    /\ UNCHANGED <<jobs, queue, limit, busy, events, notified, delivered, console, uncaught, entering, lost>>

TotalWrites == Cardinality(delivered) + Cardinality(console) + Cardinality(lost)

\* The observer's log entry for a line a sink received: the sink's signal is
\* connected to the log view of the job that owns the sink.
Forwarded(sinkJob, stream, text) ==
    [ title  |-> jobs[sinkJob].title,
      sink   |-> sinkJob,
      signal |-> ThreadedOutputSignal(stream),
      text   |-> text ]

\* The callable writes a piece of text (print, a progress bar, a warning):
\* it goes to whatever sys.stdout / sys.stderr is at that moment: the
\* console, the sink of a job, whose signal reaches that job's log, or a
\* sink of signal_loader, whose signal reaches nobody.
Write(j, stream) ==
    /\ j \in JobIds
    /\ jobs[j].pc = "call"
    /\ TotalWrites < MaxWrites
    /\ LET dest == chan[stream]
           text == [by |-> j, k |-> jobs[j].nw + 1]
       IN IF dest.to = "sink"
          THEN /\ delivered' = delivered \cup {Forwarded(dest.job, stream, text)}
               /\ UNCHANGED <<console, lost>>
          ELSE IF dest.to = "unconnected"
          THEN /\ lost' = lost \cup {[stream |-> stream, text |-> text]}
               /\ UNCHANGED <<console, delivered>>
          ELSE /\ console' = console \cup {[stream |-> stream, text |-> text]}
               /\ UNCHANGED <<delivered, lost>>
    /\ jobs' = [jobs EXCEPT ![j].nw = @ + 1]
    /\ UNCHANGED <<queue, limit, busy, chan, events, notified, uncaught, gui_saved, entering>>

\* Whether leaving the callable undoes the redirection: on every exit path.
RestoresOnExit(job, raised) == job.installed

\* Mutant: a worker that catches one class of error only.
Captures_OnlyValueError(e) == e # "OSError"

\* The worker captures any exception the callable raised.
Captures(e) == TRUE

StateAfterRun(raised) == IF raised = NoError THEN "Succeeded" ELSE "Failed"

\* The failure reason: the full error description.
ErrorDescription(e) == IF e = NoError THEN NoError ELSE <<"Traceback", e>>

\* Mutant: a failing run posts its error signal and the finished signal.
SignalsOnReport_Twice(j, raised) == IF raised # NoError THEN <<j, j>> ELSE <<j>>

\* The signals the worker posts to the GUI thread when run() ends.
SignalsOnReport(j, raised) == <<j>>

\* Mutant: a failing run never gives its thread back.
BusyAfterReport_LeakOnFailure(b, raised) == IF raised # NoError THEN b ELSE b - 1

\* activeThreadCount once run() has ended.
BusyAfterReport(b, raised) == b - 1

\* The callable is left with `raised` (NoError: a normal return): the
\* with-statement's __exit__ runs on either path, then run() records the
\* outcome and signals it, and the thread is free again.
Finish(j, raised) ==
    /\ j \in JobIds
    /\ jobs[j].pc = "call"
    /\ chan' = IF RestoresOnExit(jobs[j], raised)
               THEN RedirectExit(chan, jobs[j].saved) ELSE chan
    /\ IF Captures(raised)
       THEN /\ jobs' = [jobs EXCEPT ![j].state = StateAfterRun(raised),
                                    ![j].raised = raised,
                                    ![j].reason = ErrorDescription(raised),
                                    ![j].installed =
                                        IF RestoresOnExit(jobs[j], raised) THEN FALSE ELSE @,
                                    ![j].pc = "emitted"]
            /\ events' = events \o SignalsOnReport(j, raised)
            /\ busy' = BusyAfterReport(busy, raised)
            /\ uncaught' = uncaught
       ELSE /\ jobs' = [jobs EXCEPT ![j].raised = raised,
                                    ![j].installed =
                                        IF RestoresOnExit(jobs[j], raised) THEN FALSE ELSE @,
                                    ![j].pc = "crashed"]
            /\ uncaught' = uncaught \cup {j}
            /\ UNCHANGED <<events, busy>>
    /\ UNCHANGED <<queue, limit, notified, delivered, console, gui_saved, entering, lost>>

\* The callable returns normally.
Return(j) == Finish(j, NoError)

\* The callable raises e.
Raise(j, e) == Finish(j, e)

\* Mutant: the finished handler marks every entry Succeeded.
StateWhenNotified_AlwaysSucceeded(job) == "Succeeded"

\* The entry's state once the observer has handled the signal.
StateWhenNotified(job) == job.state

\* allowCleanup: the transient inputs (kwargs) are released once finished.
ReleasesOnFinish(job) == job.allowCleanup

\* The GUI thread handles the oldest posted signal: the observer is told
\* (title, outcome, output destination), and the job's inputs are cleaned up.
Notify(j) ==
    /\ events # <<>>
    /\ j = Head(events)
    /\ notified' = [notified EXCEPT ![j] = Append(@,
            [ title      |-> jobs[j].title,
              outcome    |-> StateWhenNotified(jobs[j]),
              outputPath |-> jobs[j].outputPath,
              reason     |-> jobs[j].reason ])]
    /\ jobs' = [jobs EXCEPT ![j].state = StateWhenNotified(jobs[j]),
                            ![j].released = ReleasesOnFinish(jobs[j]),
                            ![j].pc = "done"]
    /\ events' = Tail(events)
    /\ UNCHANGED <<queue, limit, busy, chan, delivered, console, uncaught, gui_saved, entering, lost>>

\* The folder of the pattern file a processing dialog was opened on.
PatternDir == "p"

\* The name of a file without its extension.
Stem(name) == IF name = "a.h5" THEN "a" ELSE "b"

\* Every job id either model can hold.
AllIds == 1..(MaxJobs + MaxOutJobs)

\* The pool and the job lifecycle: callables that write nothing.
PoolSubmit ==
    /\ Len(jobs) < MaxJobs
    /\ \E c \in Callers, n \in PoolNames : Submit(c, n, PatternDir, <<Stem(n), "sb">>)

PoolNext ==
    \/ PoolSubmit /\ UNCHANGED <<engvars, dlgvars>>
    \/ \E j \in AllIds : Start(j) /\ UNCHANGED <<engvars, dlgvars>>
    \/ \E j \in AllIds : Return(j) /\ UNCHANGED <<engvars, dlgvars>>
    \/ \E j \in AllIds, e \in Errors : Raise(j, e) /\ UNCHANGED <<engvars, dlgvars>>
    \/ \E j \in AllIds : Notify(j) /\ UNCHANGED <<engvars, dlgvars>>

PoolSpec == Init /\ [][PoolNext]_vars

\* The output channel: callables that write, dialogs on different files,
\* and crystal maps loaded meanwhile.  A dialog submits with the static
\* background box checked: filenameEdit shows <stem>_sb.h5.
OutSubmit ==
    /\ Len(jobs) < MaxOutJobs
    /\ \E c \in Callers, n \in Names : Submit(c, n, PatternDir, <<Stem(n), "sb">>)

OutputNext ==
    \/ OutSubmit /\ UNCHANGED <<engvars, dlgvars>>
    \/ \E j \in AllIds : Start(j) /\ UNCHANGED <<engvars, dlgvars>>
    \/ \E j \in AllIds, s \in Streams : Write(j, s) /\ UNCHANGED <<engvars, dlgvars>>
    \/ PhaseMapEnter /\ UNCHANGED <<engvars, dlgvars>>
    \/ PhaseMapExit /\ UNCHANGED <<engvars, dlgvars>>
    \/ \E j \in AllIds : Return(j) /\ UNCHANGED <<engvars, dlgvars>>
    \/ \E j \in AllIds, e \in OutErrors : Raise(j, e) /\ UNCHANGED <<engvars, dlgvars>>
    \/ \E j \in AllIds : Notify(j) /\ UNCHANGED <<engvars, dlgvars>>

OutputSpec == Init /\ [][OutputNext]_vars

\* Worker threads are scheduled and every callable returns or raises: a
\* worker step that stays possible is eventually taken.
WorkerStep(j) ==
    \/ Start(j) /\ UNCHANGED <<engvars, dlgvars>>
    \/ Return(j) /\ UNCHANGED <<engvars, dlgvars>>
    \/ \E e \in Errors : Raise(j, e) /\ UNCHANGED <<engvars, dlgvars>>

FairPoolSpec == PoolSpec /\ WF_vars(\E j \in AllIds : WorkerStep(j))

\* ------------------------------------------------------------------ claims
Terminal == {"Succeeded", "Failed"}

IsTerminal(j) == jobs[j].state \in Terminal

\* The moves Queued -> Running -> {Succeeded, Failed}.
AllowedMoves ==
    {<<"Queued", "Running">>, <<"Running", "Succeeded">>, <<"Running", "Failed">>}

\* C1: a job's state only ever changes along Queued -> Running ->
\* {Succeeded, Failed}: a new job starts Queued, no job disappears, no other
\* move occurs, and a terminal state is never left or entered a second time.
C1_StateTransitions ==
    [][ /\ DOMAIN jobs \subseteq DOMAIN jobs'
        /\ \A j \in DOMAIN jobs' :
              IF j \in DOMAIN jobs
              THEN \/ jobs'[j].state = jobs[j].state
                   \/ <<jobs[j].state, jobs'[j].state>> \in AllowedMoves
              ELSE jobs'[j].state = "Queued" ]_vars

\* C1 witness: one job has gone all the way to Succeeded and another to Failed.
C1_Witness ==
    \E j, k \in JobIds :
        /\ jobs[j].state = "Succeeded" /\ jobs[j].pc = "done"
        /\ jobs[k].state = "Failed" /\ jobs[k].pc = "done"

\* The observer is told of job j's terminal state in this step.
NotifyStep(j) ==
    /\ j \in DOMAIN notified
    /\ j \in DOMAIN notified'
    /\ Len(notified'[j]) = Len(notified[j]) + 1

\* C2 (as claimed): when a logging job's terminal state is reported to the
\* observer, the redirection to that job's sink is no longer in place.
C2_TornDownWhenReported ==
    [][ \A j \in DOMAIN jobs :
            (NotifyStep(j) /\ jobs[j].allowLogging) =>
                (chan'.out # SinkOf(j) /\ chan'.err # SinkOf(j)) ]_vars

AllTerminal == jobs # <<>> /\ \A j \in JobIds : IsTerminal(j)

\* C3 (as claimed): once every job has reached a terminal state, and no
\* crystal map is being loaded, the process-wide output channel is the one
\* in place before the first job.
C3_ChannelRestored == (AllTerminal /\ gui_saved = <<>>) => chan = StartupChannel

\* C4: a raising callable ends Failed with the full error description as its
\* reason, at most one notification (exactly one once the signal is handled)
\* that is Failed and carries that text, nothing escapes the worker, and no
\* pool thread is lost: the active threads are exactly the Running jobs.
C4_ErrorCaptured ==
    /\ uncaught = {}
    /\ busy = Cardinality({j \in JobIds : jobs[j].state = "Running"})
    /\ \A j \in JobIds :
          jobs[j].raised # NoError =>
             /\ jobs[j].state = "Failed"
             /\ jobs[j].reason = <<"Traceback", jobs[j].raised>>
             /\ Len(notified[j]) <= 1
             /\ jobs[j].pc = "done" => Len(notified[j]) = 1
             /\ \A i \in DOMAIN notified[j] :
                   /\ notified[j][i].outcome = "Failed"
                   /\ notified[j][i].reason = <<"Traceback", jobs[j].raised>>

\* C4 witness: on a one-thread pool a job failed and was reported, and a job
\* submitted after it has run to Succeeded.
C4_Witness ==
    /\ limit = 1
    /\ \E j, k \in JobIds :
          /\ j < k
          /\ jobs[j].state = "Failed" /\ Len(notified[j]) = 1
          /\ jobs[k].state = "Succeeded" /\ jobs[k].pc = "done"

\* C5: the observer is told of a terminal job at most once, never of a job
\* that is not terminal, always with that job's (title, outcome, output
\* destination), and exactly once when no signal is left to handle.
C5_NotifiedOnce ==
    \A j \in JobIds :
        /\ Len(notified[j]) <= 1
        /\ ~IsTerminal(j) => notified[j] = <<>>
        /\ (IsTerminal(j) /\ events = <<>>) => Len(notified[j]) = 1
        /\ \A i \in DOMAIN notified[j] :
              /\ notified[j][i].title = jobs[j].title
              /\ notified[j][i].outcome = jobs[j].state
              /\ notified[j][i].outputPath = jobs[j].outputPath

\* C5 witness: two jobs ran at the same time, one succeeded and one failed,
\* and each has been reported.
C5_Witness ==
    /\ limit >= 2
    /\ \E j, k \in JobIds :
          /\ jobs[j].state = "Succeeded" /\ Len(notified[j]) = 1
          /\ jobs[k].state = "Failed" /\ Len(notified[k]) = 1
          /\ jobs[j].title # jobs[k].title

Running == {j \in JobIds : jobs[j].state = "Running"}

\* C6: never more Running jobs than the pool's limit, and a job is started
\* only when no job submitted before it is still Queued (FIFO).
C6_LimitAndFifo ==
    [][ /\ Cardinality({j \in DOMAIN jobs' : jobs'[j].state = "Running"}) <= limit'
        /\ \A j \in DOMAIN jobs :
              (jobs[j].state = "Queued" /\ jobs'[j].state # "Queued") =>
                  \A i \in DOMAIN jobs : i < j => jobs[i].state # "Queued" ]_vars

\* C6 witness: on a one-thread pool the first job is over, the second runs
\* and the third still waits.
C6_Witness ==
    /\ limit = 1
    /\ Len(jobs) = 3
    /\ IsTerminal(1)
    /\ jobs[2].state = "Running"
    /\ jobs[3].state = "Queued"

\* C7: under fair scheduling every submitted job eventually reaches
\* Succeeded or Failed, and no step removes a job or ends one whose callable
\* has not returned or raised.
C7_RunsToCompletion ==
    /\ \A j \in 1..MaxJobs : [](j \in JobIds => <>(j \in JobIds /\ IsTerminal(j)))
    /\ [][ /\ DOMAIN jobs \subseteq DOMAIN jobs'
           /\ \A j \in DOMAIN jobs :
                 /\ (jobs[j].state = "Queued" /\ jobs'[j].state # "Queued") =>
                        jobs'[j].state = "Running"
                 /\ (jobs[j].state = "Running" /\ jobs'[j].state # "Running") =>
                        /\ jobs'[j].state \in Terminal
                        /\ jobs'[j].pc = "emitted"
                        /\ jobs'[j].state = StateAfterRun(jobs'[j].raised) ]_vars

\* C7 witness: every job of a full run has finished, after a failure.
C7_Witness ==
    /\ Len(jobs) = MaxJobs
    /\ \A j \in JobIds : jobs[j].pc = "done"
    /\ \E j \in JobIds : jobs[j].state = "Failed"

\* C8 (as claimed): text a logging job's callable wrote is forwarded to the
\* observer under that job's own title, and none of it is lost to the console.
C8_TaggedWithWriter ==
    /\ \A d \in delivered :
          jobs[d.text.by].allowLogging => d.title = jobs[d.text.by].title
    /\ \A c \in console \cup lost : ~jobs[c.text.by].allowLogging

\* Text written so far by job j's callable.
TextsBy(j) == {[by |-> j, k |-> n] : n \in 1..jobs[j].nw}

\* C9 (as claimed): all text a refinement job writes is streamed through
\* that job's own sink to the observer.
C9_RefineThroughOwnSink ==
    \A j \in JobIds :
        jobs[j].caller = "run_refinement" =>
            \A t \in TextsBy(j) : \E d \in delivered : d.text = t /\ d.sink = j

\* C9 (amended): run_refinement submits with allow_logging=False, so no sink
\* is installed for a refinement job and nothing is forwarded through a sink
\* of its own: its text goes to the destination in place at that moment, the
\* start-up console, the sink of another job that logs and has been started
\* (still running, or ended with its sink left in place or put back by an
\* overlapping redirection), or the unconnected sink of a crystal map being
\* loaded, where it is lost.
C9_RefineNotLogged ==
    \A j \in JobIds :
        jobs[j].caller = "run_refinement" =>
            /\ ~jobs[j].allowLogging
            /\ ~jobs[j].installed
            /\ chan.out # SinkOf(j)
            /\ chan.err # SinkOf(j)
            /\ \A d \in delivered : d.sink # j
            /\ \A t \in TextsBy(j) :
                  \/ \E c \in console : c.text = t
                  \/ \E l \in lost : l.text = t
                  \/ \E d \in delivered :
                        /\ d.text = t
                        /\ d.sink # j
                        /\ jobs[d.sink].allowLogging
                        /\ jobs[d.sink].pc # "queued"

\* C9 witness: a refinement job has written text, which reached the console.
C9_Witness ==
    \E j \in JobIds :
        /\ jobs[j].caller = "run_refinement"
        /\ jobs[j].nw > 0
        /\ \E c \in console : c.text.by = j

\* C10: inputs are released only for allowCleanup jobs and only once the job
\* is terminal; a finished allowCleanup job has them released whether it
\* Succeeded or Failed; a refinement job (allow_cleanup=False) never has.
C10_CleanupOnFinish ==
    \A j \in JobIds :
        /\ jobs[j].released => (jobs[j].allowCleanup /\ IsTerminal(j))
        /\ (jobs[j].allowCleanup /\ jobs[j].pc = "done") => jobs[j].released
        /\ jobs[j].caller = "run_refinement" =>
              (~jobs[j].allowCleanup /\ ~jobs[j].released)
        /\ jobs[j].caller = "run_processing" => jobs[j].allowCleanup

\* C10 witness: a processing job Succeeded and one Failed, both released, and
\* a finished refinement job kept its inputs.
C10_Witness ==
    \E i, j, k \in JobIds :
        /\ jobs[i].state = "Succeeded" /\ jobs[i].released
        /\ jobs[j].state = "Failed" /\ jobs[j].released
        /\ jobs[k].caller = "run_refinement" /\ jobs[k].pc = "done"
        /\ ~jobs[k].released

\* =================================================== the refinement run
\* RefineSetupDialog.refine_orientations (scripts/refinement.py), lines
\* 367-398: one navigation mask and one call of the refinement primitive per
\* master pattern, then the merge of the partial maps.  The refinement
\* primitive (s.refine_orientation) and merge_crystal_maps are library
\* calls; what they return is modelled from sections 4.2 and 4.3.

\* Phase names occurring in prior maps and master patterns.
MapPhases == {"al", "si"}

\* phaseId of a pixel that is not indexed.
NotIndexed == -1

\* Prior maps have one row or two.
GridRows == {1, 2}

\* A navigation shape is (rows, columns).
Shapes == GridRows \X (1..MaxCols)

Size(shape) == shape[1] * shape[2]

Pixels(shape) == (1..shape[1]) \X (1..shape[2])

\* The phase lists a prior map can carry: names and ids, both unique.
PhaseLists ==
    { pl \in SUBSET (MapPhases \X (0..(Cardinality(MapPhases) - 1))) :
        /\ pl # {}
        /\ \A a, b \in pl : (a[1] = b[1] \/ a[2] = b[2]) => a = b }

IdsOf(pl) == {a[2] : a \in pl}

NamesOf(pl) == {a[1] : a \in pl}

\* The crystal maps io.load can return: a shape, a phase list and the flat
\* phase_id array (one entry per point, row after row).
PriorMaps ==
    UNION { UNION { { [shape |-> sh, phases |-> pl, phase_id |-> ids] :
                        ids \in [1..Size(sh) -> IdsOf(pl) \cup {NotIndexed}] } :
                    pl \in PhaseLists } :
            sh \in Shapes }

\* Scenario B of section 8: a 4 x 4 map, its upper half al and its lower
\* half si.
ScenarioMaps ==
    { [shape |-> <<4, 4>>, phases |-> {<<"al", 0>>, <<"si", 1>>},
       phase_id |-> [i \in 1..16 |-> IF i <= 8 THEN 0 ELSE 1]] }

\* The master_patterns dicts run_refinement can build: distinct keys in
\* insertion order, none when mp_paths is empty.
KeyLists ==
    { ks \in UNION {[1..n -> MapPhases] : n \in 0..Cardinality(MapPhases)} :
        \A i, j \in DOMAIN ks : i # j => ks[i] # ks[j] }

\* xmap.phases.id_from_name(mp_key): raises KeyError for an unknown name.
HasName(m, key) == key \in NamesOf(m.phases)

id_from_name(m, key) == (CHOOSE a \in m.phases : a[1] = key)[2]

\* Mutant: a comparison that also takes the pixels of higher phase ids.
IsPhaseFlat_AtLeast(m, id) == [i \in DOMAIN m.phase_id |-> m.phase_id[i] >= id]

\* xmap.phase_id == id : flat boolean array over the map's points.
IsPhaseFlat(m, id) == [i \in DOMAIN m.phase_id |-> m.phase_id[i] = id]

\* ~array
Invert(flat) == [i \in DOMAIN flat |-> ~flat[i]]

\* Mutant: the flat array laid out column after column.
Reshape_ColumnMajor(flat, shape) ==
    [r \in 1..shape[1] |-> [c \in 1..shape[2] |-> flat[(c - 1) * shape[1] + r]]]

\* array.reshape(shape), C order: row r of the grid is the r-th run of
\* shape[2] consecutive entries of the flat array.
Reshape(flat, shape) ==
    [r \in 1..shape[1] |-> [c \in 1..shape[2] |-> flat[(r - 1) * shape[2] + c]]]

\* Mutant: the mask without the inversion.
nav_mask_phase_NotInverted(m, key) ==
    Reshape(IsPhaseFlat(m, id_from_name(m, key)), m.shape)

\* nav_mask_phase = ~(xmap.phase_id == id_from_name(mp_key)), reshaped to
\* xmap.shape.
nav_mask_phase(m, key) ==
    Reshape(Invert(IsPhaseFlat(m, id_from_name(m, key))), m.shape)

\* Mutant: the primitive refines where the mask is true.
RefinedPixels_MaskTrue(mask) ==
    { p \in (DOMAIN mask) \X (DOMAIN mask[1]) : mask[p[1]][p[2]] }

\* The pixels a navigation mask lets the primitive refine (mask false).
RefinedPixels(mask) ==
    { p \in (DOMAIN mask) \X (DOMAIN mask[1]) : ~mask[p[1]][p[2]] }

\* A single-phase crystal map with data of phase key on the pixels P: the
\* phase's id, and the orientation and scores refined with its master pattern.
DataOn(m, key, P) ==
    [ shape  |-> m.shape,
      phases |-> {<<key, id_from_name(m, key)>>},
      pix    |-> [p \in P |-> [phase_id |-> id_from_name(m, key), by |-> key]] ]

\* The partial map the primitive returns for one phase: data of that phase
\* at the pixels its mask permitted, nothing elsewhere.
PartialMap(m, key, mask) == DataOn(m, key, RefinedPixels(mask))

\* list[i] of Python: whether i is an index of the list, and the item; a
\* negative i counts from the end.
InRange(q, i) == -Len(q) <= i /\ i < Len(q)

Item(q, i) == IF i >= 0 THEN q[i + 1] ELSE q[Len(q) + i + 1]

\* mp.phase.color = self.colors[xmap.phases.id_from_name(mp_key)]: the colour
\* a phase of the run carries into the partial map and the products.
RunColor(m, key) == Item(colors, id_from_name(m, key))

\* Errors the refinement primitive can raise.
RefineErrors == {"RuntimeError"}

\* One iteration of the loop over master_patterns.items(): the mask is
\* built and the primitive called; it returns the phase's partial map or
\* raises, and nothing catches what it raises.  An mp_key the prior map
\* does not know ends the run with KeyError before the call, and so does,
\* with IndexError, a phase id the palette has no colour for.
RefinePhase ==
    /\ epc = "loop"
    /\ Len(refine_calls) < Len(master_patterns)
    /\ LET key == master_patterns[Len(refine_calls) + 1] IN
         IF ~HasName(xmap, key)
         THEN /\ epc' = "failed"
              /\ eraised' = "KeyError"
              /\ UNCHANGED <<refine_calls, ref_xmaps>>
         ELSE IF ~InRange(colors, id_from_name(xmap, key))
         THEN /\ epc' = "failed"
              /\ eraised' = "IndexError"
              /\ UNCHANGED <<refine_calls, ref_xmaps>>
         ELSE LET mask == nav_mask_phase(xmap, key) IN
              /\ refine_calls' = Append(refine_calls,
                    [key |-> key, navigation_mask |-> mask, color |-> RunColor(xmap, key)])
              /\ \/ /\ ref_xmaps' = Append(ref_xmaps, [key |-> key, partial |-> PartialMap(xmap, key, mask)])
                    /\ UNCHANGED <<epc, eraised>>
                 \/ /\ \E e \in RefineErrors : eraised' = e
                    /\ epc' = "failed"
                    /\ UNCHANGED ref_xmaps
    /\ UNCHANGED <<xmap, master_patterns, merge_calls, ref_xmap, options, det_shape, written, products, printed, submitted>>

\* The merge primitive (section 4.3): every pixel of the grid takes its data
\* from the partial that has data there, the later partial of the list when
\* several have; a pixel no partial has data for is not indexed, without
\* orientation or score.  The phase list is the union of the partials'
\* lists, with "not_indexed" when a pixel is left unclaimed.
Claimants(partials, p) == {k \in DOMAIN partials : p \in DOMAIN partials[k].pix}

Latest(S) == CHOOSE k \in S : \A l \in S : l <= k

Unclaimed(partials) ==
    {p \in Pixels(partials[1].shape) : Claimants(partials, p) = {}}

\* Mutant: a merge that numbers the phases by their place in the list.
merge_crystal_maps_Renumbered(partials) ==
    [ shape  |-> partials[1].shape,
      phases |-> UNION {partials[k].phases : k \in DOMAIN partials}
                 \cup (IF Unclaimed(partials) = {} THEN {}
                       ELSE {<<"not_indexed", NotIndexed>>}),
      pix    |-> [p \in Pixels(partials[1].shape) |->
                    IF Claimants(partials, p) = {}
                    THEN [phase_id |-> NotIndexed, by |-> "none"]
                    ELSE [phase_id |-> Latest(Claimants(partials, p)),
                          by |-> partials[Latest(Claimants(partials, p))].pix[p].by]] ]

merge_crystal_maps(partials) ==
    [ shape  |-> partials[1].shape,
      phases |-> UNION {partials[k].phases : k \in DOMAIN partials}
                 \cup (IF Unclaimed(partials) = {} THEN {}
                       ELSE {<<"not_indexed", NotIndexed>>}),
      pix    |-> [p \in Pixels(partials[1].shape) |->
                    IF Claimants(partials, p) = {}
                    THEN [phase_id |-> NotIndexed, by |-> "none"]
                    ELSE partials[Latest(Claimants(partials, p))].pix[p]] ]

\* list(ref_xmaps.values())
ref_xmaps_list == [k \in DOMAIN ref_xmaps |-> ref_xmaps[k].partial]

\* if len(ref_xmaps_list) == 1: the partial is the result, no merge.
SkipsMerge(n) == n = 1

\* Lines 385-398: the single partial, or merge_crystal_maps of the list.  No
\* test of the partials precedes the call.  Called with an empty list (no
\* master pattern) the primitive has no map to start from and raises.
MergeStep ==
    /\ epc = "loop"
    /\ Len(ref_xmaps) = Len(master_patterns)
    /\ IF SkipsMerge(Len(ref_xmaps_list))
       THEN /\ ref_xmap' = ref_xmaps_list[1]
            /\ epc' = "save"
            /\ UNCHANGED <<merge_calls, eraised>>
       ELSE /\ merge_calls' = Append(merge_calls, Len(ref_xmaps_list))
            /\ IF Len(ref_xmaps_list) = 0
               THEN /\ epc' = "failed"
                    /\ eraised' = "ValueError"
                    /\ UNCHANGED ref_xmap
               ELSE /\ ref_xmap' = merge_crystal_maps(ref_xmaps_list)
                    /\ epc' = "save"
                    /\ UNCHANGED eraised
    /\ UNCHANGED <<xmap, master_patterns, refine_calls, ref_xmaps, options, det_shape, written, products, printed, submitted>>

\* No job is submitted: the pool is at rest.
NoJobs ==
    /\ jobs = <<>>
    /\ queue = <<>>
    /\ limit = 1
    /\ busy = 0
    /\ chan = StartupChannel
    /\ events = <<>>
    /\ notified = <<>>
    /\ delivered = {}
    /\ console = {}
    /\ uncaught = {}
    /\ gui_saved = <<>>
    /\ entering = FALSE
    /\ lost = {}

\* The run at the head of its loop, for every prior map and every
\* master_patterns dict.
RefineInit ==
    /\ NoJobs
    /\ xmap \in PriorMaps \cup ScenarioMaps
    /\ master_patterns \in KeyLists
    /\ refine_calls = <<>>
    /\ ref_xmaps = <<>>
    /\ merge_calls = <<>>
    /\ ref_xmap = NoMap
    /\ epc = "loop"
    /\ eraised = NoError
    /\ options = NoOptions
    /\ det_shape = <<1, 1>>
    /\ written = <<>>
    /\ products = <<>>
    /\ printed = <<>>
    /\ submitted = NoSubmission
    /\ DialogIdle
    /\ entries \in {[NoEntries EXCEPT !.colors = c] : c \in ColorsEntries}
    /\ colors = ColorsAfterLoad(entries)

RefineNext ==
    \/ RefinePhase /\ UNCHANGED <<jobvars, dlgvars>>
    \/ MergeStep /\ UNCHANGED <<jobvars, dlgvars>>

RefineSpec == RefineInit /\ [][RefineNext]_vars

\* ------------------------------------------------ claims on the refinement
\* The prior map's phaseId at pixel (row, column).
PhaseAt(m, p) == m.phase_id[(p[1] - 1) * m.shape[2] + p[2]]

\* C11: for every call of the refinement primitive, the navigation mask has
\* the prior map's grid shape and is true at a pixel exactly when the prior
\* map's phaseId there differs from the id of the phase being refined.
C11_MaskIsComplement ==
    \A k \in DOMAIN refine_calls :
        LET mask == refine_calls[k].navigation_mask
            id   == id_from_name(xmap, refine_calls[k].key)
        IN  /\ DOMAIN mask = 1..xmap.shape[1]
            /\ \A r \in DOMAIN mask : DOMAIN mask[r] = 1..xmap.shape[2]
            /\ \A p \in Pixels(xmap.shape) :
                  mask[p[1]][p[2]] <=> (PhaseAt(xmap, p) # id)

\* A call on a 2 x 2 map whose mask excludes some pixels and admits others.
C11_Witness ==
    /\ xmap.shape = <<2, 2>>
    /\ \E k \in DOMAIN refine_calls :
          /\ \E p \in Pixels(xmap.shape) : refine_calls[k].navigation_mask[p[1]][p[2]]
          /\ \E p \in Pixels(xmap.shape) : ~refine_calls[k].navigation_mask[p[1]][p[2]]

\* C12: within one run, the pixels selected for refinement (mask false) of
\* two different phases never intersect.
C12_RefinedSetsDisjoint ==
    \A i, j \in DOMAIN refine_calls :
        i # j =>
            RefinedPixels(refine_calls[i].navigation_mask)
                \cap RefinedPixels(refine_calls[j].navigation_mask) = {}

\* Two phases were refined in one run, each on at least one pixel.
C12_Witness ==
    /\ Len(refine_calls) = 2
    /\ \A k \in DOMAIN refine_calls :
          RefinedPixels(refine_calls[k].navigation_mask) # {}

\* The pixels of the prior grid for which no partial of the run has data.
UnclaimedPixels ==
    {p \in Pixels(xmap.shape) :
        \A k \in DOMAIN ref_xmaps_list : p \notin DOMAIN ref_xmaps_list[k].pix}

\* C14: every pixel of the run's output carries the phaseId that one of the
\* partial maps holds at that pixel, or -1; no phaseId is made up.
C14_NoFabricatedPhase ==
    epc = "save" =>
        \A p \in DOMAIN ref_xmap.pix :
            \/ ref_xmap.pix[p].phase_id = NotIndexed
            \/ \E k \in DOMAIN ref_xmaps_list :
                  /\ p \in DOMAIN ref_xmaps_list[k].pix
                  /\ ref_xmaps_list[k].pix[p].phase_id = ref_xmap.pix[p].phase_id

\* Two partials were merged; both contributed pixels.
C14_Witness ==
    /\ epc = "save"
    /\ merge_calls = <<2>>
    /\ \A k \in DOMAIN ref_xmaps_list :
          \E p \in DOMAIN ref_xmaps_list[k].pix :
              ref_xmap.pix[p].phase_id = ref_xmaps_list[k].pix[p].phase_id

\* C15: in the map a run produces, every pixel of the prior grid that no
\* partial claims is present with phaseId -1 and no orientation or score,
\* the map has the prior grid's shape, and its phase list holds a
\* not-indexed phase exactly when some pixel is unclaimed.
C15_UnclaimedNotIndexed ==
    epc = "save" =>
        /\ ref_xmap.shape = xmap.shape
        /\ \A p \in UnclaimedPixels :
              /\ p \in DOMAIN ref_xmap.pix
              /\ ref_xmap.pix[p] = [phase_id |-> NotIndexed, by |-> "none"]
        /\ ("not_indexed" \in NamesOf(ref_xmap.phases)) <=> (UnclaimedPixels # {})

\* The name the prior map's phase list gives to a phase id.
NameOfId(m, id) == (CHOOSE a \in m.phases : a[2] = id)[1]

\* The prior map assigns every pixel to a phase that has a master pattern.
Partitioned ==
    \A p \in Pixels(xmap.shape) :
        /\ PhaseAt(xmap, p) \in IdsOf(xmap.phases)
        /\ \E k \in DOMAIN master_patterns :
              master_patterns[k] = NameOfId(xmap, PhaseAt(xmap, p))

\* C17: when the phases of the run partition the prior grid, the result has
\* the prior map's shape, holds at every pixel the data of the partial of
\* the phase the prior map assigned the pixel to, and has no not-indexed
\* pixel.
C17_PartitionPreserved ==
    (epc = "save" /\ Partitioned) =>
        /\ ref_xmap.shape = xmap.shape
        /\ DOMAIN ref_xmap.pix = Pixels(xmap.shape)
        /\ \A p \in Pixels(xmap.shape) :
              /\ ref_xmap.pix[p].phase_id = PhaseAt(xmap, p)
              /\ ref_xmap.pix[p].phase_id # NotIndexed
              /\ ref_xmap.pix[p].by = NameOfId(xmap, PhaseAt(xmap, p))

\* Scenario B: the 4 x 4 map split 8/8 was merged from two partials, 8 pixels
\* from each.
C17_Witness ==
    /\ epc = "save"
    /\ xmap.shape = <<4, 4>>
    /\ merge_calls = <<2>>
    /\ \A k \in DOMAIN master_patterns :
          Cardinality({p \in DOMAIN ref_xmap.pix : ref_xmap.pix[p].by = master_patterns[k]}) = 8

\* ======================================================== binning options
\* getBinningShapes, load_parameters (the Binning entry), getOptions and the
\* head of refine_orientations (lines 321-348).

\* str(n) of the integers that occur as binning texts.
Decimal == <<"1", "2", "3", "4", "5", "6", "7", "8",
             "9", "10", "11", "12", "13", "14", "15", "16">>

\* range(2, 17)
BinningRange == 2..16

\* signal_shape[::-1]
Reversed(shape) == <<shape[2], shape[1]>>

\* Mutant: a factor is accepted when it divides the first dimension.
DividesBoth_FirstOnly(num, sig) == sig[1] % num = 0

\* sig_shape[0] % num == 0 and sig_shape[1] % num == 0
DividesBoth(num, sig) == sig[1] % num = 0 /\ sig[2] % num = 0

\* getBinningShapes: "None" and the text of every factor of range(2, 17)
\* that divides both dimensions, each with the shape it gives.
getBinningShapes(signal) ==
    LET sig == Reversed(signal)
        valid == {num \in BinningRange : DividesBoth(num, sig)}
    IN  [t \in {"None"} \cup {Decimal[num] : num \in valid} |->
            IF t = "None" THEN sig
            ELSE LET num == CHOOSE n \in valid : Decimal[n] = t
                 IN <<sig[1] \div num, sig[2] \div num>>]

\* self.binnings, computed once from the file the dialog was opened on.
binnings == getBinningShapes(signal_shape)

\* binningBox.setCurrentIndex(binningBox.findText(t)): findText gives -1 for
\* a text that is no item, and index -1 leaves the box without current text.
TextAfterFind(t) == IF t \in DOMAIN binnings THEN t ELSE ""

\* What the Binning entry of the project settings can hold: no entry, a text
\* json cannot parse, or an integer.
BinningEntries(maxEntry) == {MissingEntry, "None"} \cup {Decimal[n] : n \in 1..maxEntry}

\* json.loads(entry): an int for a decimal text; read or json.loads raises
\* for the others.
JsonParses(entry) == \E n \in DOMAIN Decimal : Decimal[n] = entry

\* load_parameters, lines 165-170: the found text of str(binning), or
\* findText("None") when reading or parsing raised.
ComboAfterLoad(entry) ==
    IF JsonParses(entry) THEN TextAfterFind(entry) ELSE TextAfterFind("None")

\* Texts an X star, Y star or Z star entry can hold.
StarEntries == {MissingEntry, "abc", "0.4", "0.5"}

\* float(text): the texts it takes, and their value in hundredths.
IsFloat(t) == t \in {"0.4", "0.5"}

Float(t) == IF t = "0.4" THEN 40 ELSE 50

\* load_parameters, lines 149-154: the three setValue calls one after the
\* other; the first read or float() that raises ends them, and the except
\* clause sets self.pc, which no widget shows and getOptions does not read.
PcAfterLoad(e, ui) ==
    IF ~IsFloat(e.x) THEN ui
    ELSE IF ~IsFloat(e.y) THEN <<Float(e.x), ui[2], ui[3]>>
    ELSE IF ~IsFloat(e.z) THEN <<Float(e.x), Float(e.y), ui[3]>>
    ELSE <<Float(e.x), Float(e.y), Float(e.z)>>

\* The items of comboBoxConvention, as the settings files spell them.
Conventions == {"TSL", "BRUKER"}

\* load_parameters, lines 144-148: Convention of the project settings, or
\* of the program settings when reading the first raises.
ConventionAfterLoad(e) ==
    IF e.convention = MissingEntry THEN e.global_convention ELSE e.convention

\* str.lower()
Lower(t) == IF t = "TSL" THEN "tsl" ELSE IF t = "BRUKER" THEN "bruker" ELSE t

\* Texts of lineEditRefKwargs: nothing, a dict, a text eval cannot parse.
RefKwargsTexts == {"", "{}", "{"}

\* getOptions called on the GUI thread, where no handler runs meanwhile:
\* the dialog's widgets as they are.
getOptions ==
    [ binning     |-> combo,
      phase       |-> boxes.phase,
      orientation |-> boxes.orientation,
      ncc         |-> boxes.ncc,
      pc          |-> geometry.pc,
      convention  |-> Lower(geometry.convention),
      ref_kwargs  |-> ref_kwargs ]

\* The widgets getOptions reads, in the order of its dict display (lines
\* 120-139), and where the run is before each read.
OptionReads ==
    <<"binning", "ncc", "phase", "orientation", "convention", "pc_x", "pc_y", "pc_z", "ref_kwargs">>

ReadStages ==
    <<"options", "read_ncc", "read_phase", "read_orientation", "read_convention",
      "read_pc_x", "read_pc_y", "read_pc_z", "read_ref_kwargs">>

Reading == {ReadStages[i] : i \in DOMAIN ReadStages}

\* One widget is read: the options with that value as the widget holds it
\* now.
AfterRead(opts, k) ==
    IF k = "pc_x" THEN [opts EXCEPT !.pc[1] = geometry.pc[1]]
    ELSE IF k = "pc_y" THEN [opts EXCEPT !.pc[2] = geometry.pc[2]]
    ELSE IF k = "pc_z" THEN [opts EXCEPT !.pc[3] = geometry.pc[3]]
    ELSE [opts EXCEPT ![k] = getOptions[k]]

\* eval(options["binning"]): None, an int, or SyntaxError for the empty text.
EvalBinning(t) ==
    IF t = "" THEN [kind |-> "raise", error |-> "SyntaxError"]
    ELSE IF t = "None" THEN [kind |-> "None"]
    ELSE [kind |-> "int", n |-> CHOOSE n \in DOMAIN Decimal : Decimal[n] = t]

\* str(binning) of an evaluated binning.
StrOf(b) == IF b.kind = "None" THEN "None" ELSE Decimal[b.n]

\* ================================================== one run, end to end
\* The file the dialog's crystal map was loaded from (self.xmap_name).
RunName == "a.h5"

\* A path io.load cannot read.
BadFile == [shape |-> <<0, 0>>, phases |-> {}, pix |-> <<>>, unreadable |-> TRUE]

\* run_refinement (the OK button): the pattern file and the crystal map are
\* loaded, one master pattern per entry of self.mp_paths, and the job is
\* handed to the job manager.  io.load raising leaves no job behind.  One
\* run is followed at a time.
RunRefinement ==
    /\ ok_enabled
    /\ epc = "idle"
    /\ xmap_file # BadFile
    /\ Submit("run_refinement", xmap_name, working_dir, filename_edit)
    /\ xmap' = xmap_file
    /\ master_patterns' = mp_paths
    /\ options' = getOptions
    /\ submitted' = [options |-> getOptions, xmap_name |-> xmap_name]
    /\ epc' = "queued"
    /\ UNCHANGED <<refine_calls, ref_xmaps, merge_calls, ref_xmap, eraised,
                   det_shape, written, products, printed>>
    /\ UNCHANGED dlgvars

\* A worker picks the job up and calls refine_orientations.
StartRun ==
    /\ epc = "queued"
    /\ \E j \in JobIds : Start(j)
    /\ epc' = "options"
    /\ UNCHANGED <<xmap, master_patterns, refine_calls, ref_xmaps, merge_calls, ref_xmap,
                   eraised, options, det_shape, written, products, printed, submitted>>
    /\ UNCHANGED dlgvars

\* Line 321, options = self.getOptions() on the worker thread: one widget
\* is read per step, as the dialog shows it at that moment; the handlers of
\* the GUI thread run between the reads.
ReadOptions ==
    /\ \E i \in DOMAIN ReadStages :
          /\ epc = ReadStages[i]
          /\ options' = AfterRead(options, OptionReads[i])
          /\ epc' = IF i < Len(ReadStages) THEN ReadStages[i + 1] ELSE "head"
    /\ UNCHANGED <<xmap, master_patterns, refine_calls, ref_xmaps, merge_calls, ref_xmap,
                   eraised, det_shape, written, products, printed, submitted>>
    /\ UNCHANGED <<jobvars, dlgvars>>

\* What rebin and the detector's constructor do with their arguments.
HeadOutcomes == {"built", "rebin raises", "detector raises"}

\* Lines 322-366: the binning text is evaluated, then the text of the
\* keyword arguments when there is one; the signal is rebinned to
\* self.binnings[str(binning)], given to rebin as the new signal shape; the
\* detector gets the rebinned signal's shape reversed.  Nothing catches
\* what one of them raises.
EvalOptions ==
    /\ epc = "head"
    /\ LET b == EvalBinning(options.binning) IN
         IF b.kind = "raise"
         THEN /\ epc' = "failed"
              /\ eraised' = b.error
              /\ UNCHANGED det_shape
         ELSE IF options.ref_kwargs = "{"
         THEN /\ epc' = "failed"
              /\ eraised' = "SyntaxError"
              /\ UNCHANGED det_shape
         ELSE IF b.kind # "None" /\ StrOf(b) \notin DOMAIN binnings
         THEN /\ epc' = "failed"
              /\ eraised' = "KeyError"
              /\ UNCHANGED det_shape
         ELSE \E outcome \in HeadOutcomes :
                IF outcome = "built"
                THEN /\ det_shape' = IF b.kind = "None" THEN Reversed(signal_shape)
                                     ELSE Reversed(binnings[StrOf(b)])
                     /\ epc' = "loop"
                     /\ UNCHANGED eraised
                ELSE /\ outcome = "rebin raises" => b.kind # "None"
                     /\ epc' = "failed"
                     /\ eraised' = "ValueError"
                     /\ UNCHANGED det_shape
    /\ UNCHANGED <<xmap, master_patterns, refine_calls, ref_xmaps, merge_calls, ref_xmap,
                   options, written, products, printed, submitted>>
    /\ UNCHANGED <<jobvars, dlgvars>>

\* path.splitext(name)
Splitext(name) == IF name = "a.h5" THEN <<"a", ".h5">> ELSE <<"b", ".h5">>

\* The two files of the result: refined_<stem>.h5 and refined_<stem>.ang,
\* in the folder of the crystal map of that name.
ResultFiles(name) ==
    << <<"refined_", Splitext(name)[1], ".h5">>,
       <<"refined_", Splitext(name)[1], ".ang">> >>

\* Where the run is before each of the two io.save calls.
SaveStages == <<"save", "save_ang">>

\* print of line 422
SavedLine == <<"Result was saved as ref_xmap_hi.ang and ref_xmap_hi.h5">>

\* Lines 410-422, one io.save per step: the .h5 file, then the .ang file,
\* each named after self.xmap_dir and self.xmap_name as they are when its
\* call is reached; a save that raises ends the run, nothing catches it.
\* The line of 422 is printed after the second.
SaveMaps ==
    /\ \E i \in DOMAIN SaveStages :
          /\ epc = SaveStages[i]
          /\ \E ok \in BOOLEAN :
                /\ written' = Append(written, [file |-> ResultFiles(xmap_name)[i], ok |-> ok])
                /\ IF ~ok
                   THEN /\ epc' = "failed"
                        /\ eraised' = "OSError"
                        /\ UNCHANGED printed
                   ELSE IF i < Len(SaveStages)
                   THEN /\ epc' = SaveStages[i + 1]
                        /\ UNCHANGED <<eraised, printed>>
                   ELSE /\ epc' = "products"
                        /\ printed' = Append(printed, SavedLine)
                        /\ UNCHANGED eraised
    /\ UNCHANGED <<xmap, master_patterns, refine_calls, ref_xmaps, merge_calls, ref_xmap,
                   options, det_shape, products, submitted>>
    /\ UNCHANGED <<jobvars, dlgvars>>

\* for key in ["phase", "orientation", "ncc"]
ProductKeys == <<"phase", "orientation", "ncc">>

\* The keys whose optionEnabled is set, in the loop's order.
Requested(opts) == SelectSeq(ProductKeys, LAMBDA k : opts[k])

\* How far a generator gets: to its end, or to the place where it raises.
\* save_ipf_map is called with eval of the colour key text, prints, builds
\* the vector and the colour key, prints the key, and plots; save_phase_map
\* prints and plots; save_ncc_map plots.
Outcomes(key) ==
    IF key = "orientation" THEN {"ok", "eval", "vector", "plot"} ELSE {"ok", "plot"}

\* Mutant: the first product that raises ends the loop.
AttemptsOf_StopAtFailure(opts, how) ==
    LET req == Requested(opts)
        bad == {i \in DOMAIN req : how[req[i]] # "ok"}
        last == IF bad = {} THEN Len(req) ELSE CHOOSE i \in bad : \A l \in bad : i <= l
    IN [i \in 1..last |-> [key |-> req[i], raised |-> how[req[i]] # "ok"]]

\* Lines 424-433: every enabled product is executed; what one raises is
\* caught there.
AttemptsOf(opts, how) ==
    [i \in DOMAIN Requested(opts) |->
        [key |-> Requested(opts)[i], raised |-> how[Requested(opts)[i]] # "ok"]]

\* The lines a generator prints before it returns or raises.
GeneratorLines(key, at) ==
    IF key = "phase" THEN << <<"Saving phase map ...">> >>
    ELSE IF key = "ncc" \/ at = "eval" THEN <<>>
    ELSE IF at = "vector" THEN << <<"Saving inverse pole figure map ...">> >>
    ELSE << <<"Saving inverse pole figure map ...">>, <<"IPFColorKeyTSL">> >>

\* The lines of the loop: per product those of its generator, then
\* print(f"Could not save {key}_map: ...") when it raised.
RECURSIVE LinesOf(_, _)
LinesOf(attempts, how) ==
    IF attempts = <<>> THEN <<>>
    ELSE GeneratorLines(Head(attempts).key, how[Head(attempts).key])
         \o (IF Head(attempts).raised
             THEN << <<"Could not save", Head(attempts).key>> >> ELSE <<>>)
         \o LinesOf(Tail(attempts), how)

\* Lines 424-434: the loop over the three products; any of the generators
\* may raise.  The closing line names self.xmap_name as it is then.
GenerateProducts ==
    /\ epc = "products"
    /\ \E how \in [{ProductKeys[i] : i \in DOMAIN ProductKeys} -> {"ok", "eval", "vector", "plot"}] :
          /\ \A k \in DOMAIN how : how[k] \in Outcomes(k) /\ (~options[k] => how[k] = "ok")
          /\ products' = AttemptsOf(options, how)
          /\ printed' = printed \o LinesOf(AttemptsOf(options, how), how)
                                \o << <<"Finished refining orientations for", xmap_name>> >>
    /\ epc' = "finished"
    /\ UNCHANGED <<xmap, master_patterns, refine_calls, ref_xmaps, merge_calls, ref_xmap,
                   eraised, options, det_shape, written, submitted>>
    /\ UNCHANGED <<jobvars, dlgvars>>

\* refine_orientations returns, or the exception that ended it reaches the
\* worker.
EndRun ==
    /\ epc \in {"finished", "failed"}
    /\ \E j \in JobIds : Finish(j, IF epc = "failed" THEN eraised ELSE NoError)
    /\ epc' = IF epc = "failed" THEN "raised" ELSE "returned"
    /\ UNCHANGED <<xmap, master_patterns, refine_calls, ref_xmaps, merge_calls, ref_xmap,
                   eraised, options, det_shape, written, products, printed, submitted>>
    /\ UNCHANGED dlgvars

\* The user picks an item of comboBoxBinning.
SelectBinning(t) ==
    /\ t \in DOMAIN binnings
    /\ t # combo
    /\ epc \in {"idle", "queued"} \cup Reading
    /\ combo' = t
    /\ UNCHANGED <<signal_shape, binning_entry, boxes, phases, mp_paths, table, xmap_file, xmap_rows, ok_enabled,
                   xmap_name, phase_colors, entries, geometry, colors, ref_kwargs>>
    /\ UNCHANGED <<jobvars, engvars, ppvars>>

\* What follows the OK button, and the binning box.
RunNext ==
    \/ \E t \in DOMAIN binnings : SelectBinning(t)
    \/ RunRefinement
    \/ StartRun
    \/ ReadOptions
    \/ EvalOptions
    \/ RefinePhase /\ UNCHANGED <<jobvars, dlgvars>>
    \/ MergeStep /\ UNCHANGED <<jobvars, dlgvars>>
    \/ SaveMaps
    \/ GenerateProducts
    \/ EndRun
    \/ \E j \in AllIds : Notify(j) /\ UNCHANGED <<engvars, dlgvars>>

\* A crystal map of two pixels, one of each phase.
TwoPixelMap ==
    [shape |-> <<1, 2>>, phases |-> {<<"al", 0>>, <<"si", 1>>}, phase_id |-> <<0, 1>>]

\* The dialog opened on a pattern file of any signal shape, with any Binning
\* entry in the project settings; one master pattern and a crystal map are
\* loaded.
BinningInit ==
    /\ NoJobs
    /\ EngineIdle
    /\ signal_shape \in (1..MaxSide) \X (1..MaxSide)
    /\ binning_entry \in BinningEntries(MaxSide)
    /\ combo = ComboAfterLoad(binning_entry)
    /\ boxes = [phase |-> FALSE, orientation |-> TRUE, ncc |-> FALSE]
    /\ phases = <<"al">>
    /\ mp_paths = <<"al">>
    /\ table = <<"al">>
    /\ xmap_file = TwoPixelMap
    /\ xmap_rows = 2
    /\ ok_enabled = TRUE
    /\ xmap_name = RunName
    /\ entries = NoEntries
    /\ geometry = [pc |-> PcAfterLoad(entries, UiPatternCenter),
                   convention |-> ConventionAfterLoad(entries)]
    /\ colors = ColorsAfterLoad(entries)
    /\ phase_colors = [i \in DOMAIN phases |-> Item(colors, i - 1)]
    /\ ref_kwargs = ""
    /\ ProcessingIdle

BinningSpec == BinningInit /\ [][RunNext]_vars

\* The dialog with one or two master patterns and a crystal map loaded, the
\* product boxes in any state the dialog allows: checkBoxPhase is disabled
\* and unchecked with fewer than two phases.
ProductInit ==
    /\ NoJobs
    /\ EngineIdle
    /\ signal_shape = <<2, 2>>
    /\ binning_entry = MissingEntry
    /\ combo = ComboAfterLoad(binning_entry)
    /\ mp_paths \in {<<"al">>, <<"al", "si">>}
    /\ phases = mp_paths
    /\ table = mp_paths
    /\ boxes \in {b \in [phase : BOOLEAN, orientation : BOOLEAN, ncc : BOOLEAN] :
                    b.phase => Len(table) > 1}
    /\ xmap_file = TwoPixelMap
    /\ xmap_rows = 2
    /\ ok_enabled = TRUE
    /\ xmap_name = RunName
    /\ entries = NoEntries
    /\ geometry = [pc |-> PcAfterLoad(entries, UiPatternCenter),
                   convention |-> ConventionAfterLoad(entries)]
    /\ colors = ColorsAfterLoad(entries)
    /\ phase_colors = [i \in DOMAIN phases |-> Item(colors, i - 1)]
    /\ ref_kwargs = ""
    /\ ProcessingIdle

ProductSpec == ProductInit /\ [][RunNext]_vars

\* ----------------------------------------------------- claims on the run
\* The run has read its options.
PastOptions == epc \notin {"idle", "queued", "head"} \cup Reading

\* A binning text names a usable binning: none, or a factor of 2..16 that
\* divides both sides of the signal.
UsableBinning(t) ==
    \/ t = "None"
    \/ \E n \in 2..16 :
          /\ Decimal[n] = t
          /\ signal_shape[1] % n = 0
          /\ signal_shape[2] % n = 0

\* C18: a run whose binning is not a factor dividing both dimensions of the
\* signal shape is rejected with ConfigurationError before any per-phase
\* refinement call and before any output is written.
C18_InvalidBinningRejected ==
    (PastOptions /\ ~UsableBinning(options.binning)) =>
        /\ eraised = "ConfigurationError"
        /\ refine_calls = <<>>
        /\ written = <<>>

\* The place of a product in the order phase, orientation, ncc.
Rank(key) == CHOOSE i \in 1..3 : <<"phase", "orientation", "ncc">>[i] = key

\* C20: every requested product is attempted, in the order phase,
\* orientation, ncc, whether or not another one failed; a failure is caught
\* and printed; no unrequested product is generated; the run ends without
\* an error and the job is reported Succeeded.
C20_ProductsIndependent ==
    (epc \in {"finished", "returned"}) =>
        /\ \A k \in {"phase", "orientation", "ncc"} :
              options[k] <=> (\E i \in DOMAIN products : products[i].key = k)
        /\ \A i, j \in DOMAIN products :
              i < j => Rank(products[i].key) < Rank(products[j].key)
        /\ \A i \in DOMAIN products :
              products[i].raised =>
                  \E l \in DOMAIN printed : printed[l] = <<"Could not save", products[i].key>>
        /\ eraised = NoError
        /\ \A j \in JobIds :
              /\ epc = "returned" => jobs[j].raised = NoError
              /\ jobs[j].pc = "done" =>
                    /\ jobs[j].state = "Succeeded"
                    /\ Len(notified[j]) = 1
                    /\ notified[j][1].outcome = "Succeeded"

\* A run in which the phase map failed, the NCC map was still generated, the
\* orientation map was not requested, and the job was reported Succeeded.
C20_Witness ==
    /\ epc = "returned"
    /\ products = <<[key |-> "phase", raised |-> TRUE], [key |-> "ncc", raised |-> FALSE]>>
    /\ \E j \in JobIds : jobs[j].pc = "done" /\ jobs[j].state = "Succeeded"

\* ==================================================== the setup dialog
\* load_master_pattern, remove_master_pattern, load_crystal_map,
\* updatePhaseTable, updateCrystalMapTable and setAvailableButtons.

\* Phase names of the master pattern files at hand.
FilePhases == {"al", "si", "fe", "ni", "cu"}

\* A file kp.load cannot read.
Unloadable == "unloadable"

SeqNames(q) == {q[i] : i \in DOMAIN q}

\* The colour a phase has in its master pattern file.
FileColor == "tab:blue"

\* Place of a name in a sequence of distinct names.
IndexOf(q, name) == CHOOSE i \in DOMAIN q : q[i] = name

\* The body of the try block for one master pattern file: kp.load,
\* self.phases.add (ValueError for a name already in the list), the colour
\* self.colors[len(self.phases.ids) - 1], the length counting the phase just
\* added (IndexError past the palette), then
\* the entry of self.mp_paths.  The except clause prints and goes on.
LoadOne(st, f) ==
    IF f = Unloadable THEN st
    ELSE IF f \in SeqNames(st.phases) THEN st
    ELSE IF ~InRange(colors, Len(st.phases))
         THEN [st EXCEPT !.phases = Append(@, f),
                         !.phase_colors = Append(@, FileColor)]
         ELSE [st EXCEPT !.phases = Append(@, f),
                         !.phase_colors = Append(@, Item(colors, Len(st.phases))),
                         !.mp_paths = IF f \in SeqNames(@) THEN @ ELSE Append(@, f)]

RECURSIVE LoadAll(_, _)
LoadAll(st, files) ==
    IF files = <<>> THEN st
    ELSE LoadAll(LoadOne(st, Head(files)), Tail(files))

\* setAvailableButtons: ok_flag and xmap_flag.
OkFlag(n_phases, n_xmap) == n_phases > 0 /\ n_xmap > 0

\* setAvailableButtons: checkBoxPhase is checked exactly with two rows or
\* more.
PhaseMapFlag(n_phases) == n_phases > 1

\* load_master_pattern: every picked file goes through the try block, then
\* updatePhaseTable shows self.phases and sets the buttons.
LoadMasterPattern(files) ==
    /\ LET st == LoadAll([phases |-> phases, mp_paths |-> mp_paths,
                          phase_colors |-> phase_colors], files) IN
         /\ phases' = st.phases
         /\ phase_colors' = st.phase_colors
         /\ mp_paths' = st.mp_paths
         /\ table' = st.phases
         /\ ok_enabled' = OkFlag(Len(st.phases), xmap_rows)
         /\ boxes' = [boxes EXCEPT !.phase = PhaseMapFlag(Len(st.phases))]
    /\ UNCHANGED <<signal_shape, binning_entry, combo, xmap_file, xmap_rows, xmap_name, entries, geometry, colors, ref_kwargs>>
    /\ UNCHANGED <<jobvars, engvars, ppvars>>

Without(q, name) == SelectSeq(q, LAMBDA x : x # name)

RemoveAt(q, row) == SubSeq(q, 1, row - 1) \o SubSeq(q, row + 1, Len(q))

\* The loop of remove_master_pattern over the selected indexes, last first.
\* An index keeps the row number it had when the selection was made; a row
\* number past the end of the table gives no item, and the handler ends
\* there with AttributeError.
RECURSIVE RemoveAll(_, _)
RemoveAll(st, sel) ==
    IF sel = <<>> THEN st
    ELSE LET row == sel[Len(sel)] IN
         IF row > Len(st.table) THEN [st EXCEPT !.aborted = TRUE]
         ELSE LET key == st.table[row] IN
              IF key \notin SeqNames(st.phases) THEN [st EXCEPT !.aborted = TRUE]
              ELSE RemoveAll([st EXCEPT !.phases = Without(@, key),
                                        !.phase_colors = RemoveAt(@, IndexOf(st.phases, key)),
                                        !.mp_paths = Without(@, key),
                                        !.table = RemoveAt(@, row)],
                             SubSeq(sel, 1, Len(sel) - 1))

\* remove_master_pattern on the selected rows; setAvailableButtons is
\* reached when the loop ends normally.
RemoveMasterPattern(sel) ==
    /\ LET st == RemoveAll([phases |-> phases, mp_paths |-> mp_paths,
                            phase_colors |-> phase_colors,
                            table |-> table, aborted |-> FALSE], sel) IN
         /\ phases' = st.phases
         /\ phase_colors' = st.phase_colors
         /\ mp_paths' = st.mp_paths
         /\ table' = st.table
         /\ IF st.aborted
            THEN UNCHANGED <<ok_enabled, boxes>>
            ELSE /\ ok_enabled' = OkFlag(Len(st.table), xmap_rows)
                 /\ boxes' = [boxes EXCEPT !.phase = PhaseMapFlag(Len(st.table))]
    /\ UNCHANGED <<signal_shape, binning_entry, combo, xmap_file, xmap_rows, xmap_name, entries, geometry, colors, ref_kwargs>>
    /\ UNCHANGED <<jobvars, engvars, ppvars>>

\* The crystal map files at hand.
MapFiles == {TwoPixelMap, BadFile}

\* load_crystal_map: self.xmap_path is set, then io.load; a file it cannot
\* read ends the handler there.  updateCrystalMapTable shows one row per
\* phase of the map and sets the buttons.
LoadCrystalMap(name, file) ==
    /\ xmap_name' = name
    /\ xmap_file' = file
    /\ IF file = BadFile
       THEN UNCHANGED <<xmap_rows, ok_enabled, boxes>>
       ELSE /\ xmap_rows' = Cardinality(file.phases)
            /\ ok_enabled' = OkFlag(Len(table), Cardinality(file.phases))
            /\ boxes' = [boxes EXCEPT !.phase = PhaseMapFlag(Len(table))]
    /\ UNCHANGED <<signal_shape, binning_entry, combo, phases, mp_paths, table, phase_colors, entries, geometry, colors, ref_kwargs>>
    /\ UNCHANGED <<jobvars, engvars, ppvars>>

\* The file lists a file dialog can return, and the row selections, the
\* empty one among them.
Picks == UNION {[1..n -> FilePhases \cup {Unloadable}] : n \in 1..MaxPick}

Selections ==
    { q \in UNION {[1..n -> 1..Len(table)] : n \in 0..MaxSelect} :
        \A i, j \in DOMAIN q : i # j => q[i] # q[j] }

\* The dialog as __init__ leaves it: no master pattern, no crystal map,
\* the OK button disabled, the palette of __init__ or one of two colours
\* from the program settings.  The dialog is set up first and run then.
DialogInit ==
    /\ NoJobs
    /\ EngineIdle
    /\ DialogIdle
    /\ entries \in {[NoEntries EXCEPT !.colors = c] : c \in {MissingEntry, "red,green"}}
    /\ colors = ColorsAfterLoad(entries)

DialogNext ==
    \/ \E files \in Picks : epc = "idle" /\ LoadMasterPattern(files)
    \/ \E sel \in Selections : epc = "idle" /\ RemoveMasterPattern(sel)
    \/ \E file \in MapFiles : epc = "idle" /\ LoadCrystalMap(RunName, file)
    \/ RunRefinement
    \/ StartRun
    \/ ReadOptions
    \/ EvalOptions
    \/ RefinePhase /\ UNCHANGED <<jobvars, dlgvars>>
    \/ MergeStep /\ UNCHANGED <<jobvars, dlgvars>>
    \/ SaveMaps
    \/ GenerateProducts
    \/ EndRun
    \/ \E j \in AllIds : Notify(j) /\ UNCHANGED <<engvars, dlgvars>>

DialogSpec == DialogInit /\ [][DialogNext]_vars

\* C19: a run that has got past reading its options references at least one
\* phase model and a prior map of at least one pixel; a run without them has
\* failed with ConfigurationError before any refinement or merge call.
C19_RunHasPhasesAndMap ==
    PastOptions =>
        \/ /\ Len(master_patterns) >= 1
           /\ Size(xmap.shape) >= 1
        \/ /\ eraised = "ConfigurationError"
           /\ refine_calls = <<>>
           /\ merge_calls = <<>>

\* C16: a run with exactly one phase model takes its single partial map as
\* the result without a merge, and the merge is only ever called with two
\* partial maps or more.
C16_MergeOnlyForSeveral ==
    /\ \A k \in DOMAIN merge_calls : merge_calls[k] >= 2
    /\ (epc \in {"save", "products", "finished", "returned"}
            /\ Len(master_patterns) = 1) =>
           /\ merge_calls = <<>>
           /\ ref_xmap = ref_xmaps_list[1]

\* ------------------------------------- failures and order in the phase loop
\* C22: when the loop over the master patterns is over, every master
\* pattern whose phase the prior map knows has had its call of the
\* refinement primitive, whatever happened to the other phases.
C22_PhaseFailureIsolated ==
    epc # "loop" =>
        \A i \in DOMAIN master_patterns :
            HasName(xmap, master_patterns[i]) =>
                \E k \in DOMAIN refine_calls : refine_calls[k].key = master_patterns[i]

\* The orders in which the phases of a run can be iterated.
Orders(keys) ==
    { o \in [DOMAIN keys -> {keys[i] : i \in DOMAIN keys}] :
        \A i, j \in DOMAIN o : i # j => o[i] # o[j] }

\* The result of lines 367-398 for a map and an order of the keys, every
\* call of the primitive returning.
ResultInOrder(m, order) ==
    LET partials == [k \in DOMAIN order |->
                        PartialMap(m, order[k], nav_mask_phase(m, order[k]))]
    IN  IF SkipsMerge(Len(partials)) THEN partials[1] ELSE merge_crystal_maps(partials)

\* C23: the map a run arrives at is the map every other order of its phases
\* arrives at: same grid, same phase list, same phaseId and same source of
\* orientation and scores at every pixel.
C23_OrderIndependent ==
    epc = "save" =>
        \A o \in Orders(master_patterns) : ResultInOrder(xmap, o) = ref_xmap

\* Two phases were refined and merged on a map holding pixels of both and a
\* pixel that is not indexed.
C23_Witness ==
    /\ epc = "save"
    /\ Len(master_patterns) = 2
    /\ merge_calls = <<2>>
    /\ \E i \in DOMAIN xmap.phase_id : xmap.phase_id[i] = NotIndexed
    /\ \A k \in DOMAIN ref_xmaps_list : DOMAIN ref_xmaps_list[k].pix # {}

\* ------------------------------------------------- the binning table
\* C27: the keys of the binning table are "None" and the decimal texts of
\* the n of 2..16 of which both the rows and the columns of the signal are
\* multiples; "None" gives (rows, columns) and n gives the shape that,
\* multiplied by n, is (rows, columns).
C27_BinningShapes ==
    LET rows == signal_shape[2]
        cols == signal_shape[1]
        common == {n \in 2..16 : \E a \in 1..rows : \E b \in 1..cols :
                                    a * n = rows /\ b * n = cols}
    IN  /\ DOMAIN binnings = {"None"} \cup {Decimal[n] : n \in common}
        /\ binnings["None"] = <<rows, cols>>
        /\ \A n \in common :
              /\ binnings[Decimal[n]][1] * n = rows
              /\ binnings[Decimal[n]][2] * n = cols

\* A run on a signal of 4 rows and 6 columns has read the binning "2" that
\* the settings named and rebinned to 2 rows and 3 columns.
C27_Witness ==
    /\ signal_shape = <<6, 4>>
    /\ epc = "loop"
    /\ options.binning = "2"
    /\ binnings["2"] = <<2, 3>>
    /\ det_shape = <<3, 2>>

\* ----------------------------------------------- the dialog's phase lists
NoRepeat(q) == \A i, j \in DOMAIN q : i # j => q[i] # q[j]

\* C29: the names of self.phases, the keys of self.mp_paths and the names in
\* the phase table are one and the same set, and none of the three holds a
\* name twice.
C29_PhaseListsAgree ==
    /\ SeqNames(phases) = SeqNames(mp_paths)
    /\ SeqNames(phases) = SeqNames(table)
    /\ NoRepeat(phases)
    /\ NoRepeat(mp_paths)
    /\ NoRepeat(table)

\* ------------------------------------------------ saving the result map
\* C21: once the run has left the saving of its result, both files have
\* had their io.save call, whether or not the other's call raised, and a
\* save that raised has not ended the run.
C21_SiblingWriteAttempted ==
    (written # <<>> /\ epc \notin {SaveStages[i] : i \in DOMAIN SaveStages}) =>
        /\ \A i \in DOMAIN ResultFiles(RunName) :
              \E k \in DOMAIN written : written[k].file[3] = ResultFiles(RunName)[i][3]
        /\ eraised # "OSError"

\* --------------------------------------------- settings read by the dialog
\* The dialog opened by __init__ and load_parameters on settings files with
\* any X star, Y star, Z star, Convention and Binning entries; one master
\* pattern and a crystal map are loaded, and the run follows with the
\* widgets as load_parameters left them.
ConfigInit ==
    /\ NoJobs
    /\ EngineIdle
    /\ signal_shape = <<2, 2>>
    /\ binning_entry \in {MissingEntry, "None", "1", "2", "3"}
    /\ combo = ComboAfterLoad(binning_entry)
    /\ boxes = [phase |-> FALSE, orientation |-> TRUE, ncc |-> FALSE]
    /\ phases = <<"al">>
    /\ mp_paths = <<"al">>
    /\ table = <<"al">>
    /\ xmap_file = TwoPixelMap
    /\ xmap_rows = 2
    /\ ok_enabled = TRUE
    /\ xmap_name = RunName
    /\ entries \in [ x : StarEntries, y : StarEntries, z : StarEntries,
                     convention : Conventions \cup {MissingEntry},
                     global_convention : Conventions,
                     colors : ColorsEntries ]
    /\ geometry = [pc |-> PcAfterLoad(entries, UiPatternCenter),
                   convention |-> ConventionAfterLoad(entries)]
    /\ colors = ColorsAfterLoad(entries)
    /\ phase_colors = [i \in DOMAIN phases |-> Item(colors, i - 1)]
    /\ ref_kwargs = ""
    /\ ProcessingIdle

ConfigNext ==
    \/ RunRefinement
    \/ StartRun
    \/ ReadOptions
    \/ EvalOptions
    \/ RefinePhase /\ UNCHANGED <<jobvars, dlgvars>>
    \/ MergeStep /\ UNCHANGED <<jobvars, dlgvars>>
    \/ SaveMaps
    \/ GenerateProducts
    \/ EndRun
    \/ \E j \in AllIds : Notify(j) /\ UNCHANGED <<engvars, dlgvars>>

ConfigSpec == ConfigInit /\ [][ConfigNext]_vars

\* The documented default of the pattern centre, in hundredths.
DefaultPc == <<50, 20, 50>>

\* C24: a run that has read its options uses the pattern centre
\* (0.5, 0.2, 0.5) when one of X star, Y star, Z star is missing or no
\* float, the binning None when the Binning entry is missing or does not
\* parse, and the convention of the program settings when the project
\* settings have none.
C24_DefaultsUsed ==
    PastOptions =>
        /\ (\E t \in {entries.x, entries.y, entries.z} : ~IsFloat(t)) =>
              options.pc = DefaultPc
        /\ ~JsonParses(binning_entry) => options.binning = "None"
        /\ entries.convention = MissingEntry =>
              options.convention = Lower(entries.global_convention)

\* ------------------------------------------------------ phase colours
\* The colours a run gives its phases are the colours the dialog shows for
\* them.
RunColorsAsShown ==
    \A k \in DOMAIN refine_calls :
        refine_calls[k].key \in SeqNames(phases) =>
            refine_calls[k].color = phase_colors[IndexOf(phases, refine_calls[k].key)]

\* C25: a phase that enters self.phases as its n-th member gets the n-th
\* colour of the palette, and a phase refined by a run carries into the
\* run's maps the colour it has in the dialog.
C25_ColorsByArrival ==
    [][ /\ \A i \in DOMAIN phases' :
              i > Len(phases) =>
                  /\ i \in DOMAIN colors
                  /\ phase_colors'[i] = colors[i]
        /\ RunColorsAsShown'
      ]_vars

\* ------------------------------------------- the dialog during the run
\* run_refinement does not close the dialog: its widgets and buttons stay
\* in use while the job waits for a thread and while it runs.

\* The user checks or unchecks checkBoxOrientation or checkBoxNCC.
ToggleBox(k) ==
    /\ boxes' = [boxes EXCEPT ![k] = ~@]
    /\ UNCHANGED <<signal_shape, binning_entry, combo, phases, mp_paths, table, xmap_file, xmap_rows,
                   ok_enabled, xmap_name, phase_colors, entries, geometry, colors, ref_kwargs>>
    /\ UNCHANGED <<jobvars, engvars, ppvars>>

\* The user types into lineEditRefKwargs.
EditRefKwargs(t) ==
    /\ t # ref_kwargs
    /\ epc \in {"idle", "queued"} \cup Reading
    /\ ref_kwargs' = t
    /\ UNCHANGED <<signal_shape, binning_entry, combo, boxes, phases, mp_paths, table, xmap_file, xmap_rows,
                   ok_enabled, xmap_name, phase_colors, entries, geometry, colors>>
    /\ UNCHANGED <<jobvars, engvars, ppvars>>

\* The dialog with the master patterns of al and si and the crystal map
\* a.h5 loaded.
LiveInit ==
    /\ NoJobs
    /\ EngineIdle
    /\ signal_shape = <<2, 2>>
    /\ binning_entry = MissingEntry
    /\ combo = ComboAfterLoad(binning_entry)
    /\ boxes = [phase |-> TRUE, orientation |-> FALSE, ncc |-> FALSE]
    /\ phases = <<"al", "si">>
    /\ mp_paths = <<"al", "si">>
    /\ table = <<"al", "si">>
    /\ xmap_file = TwoPixelMap
    /\ xmap_rows = 2
    /\ ok_enabled = TRUE
    /\ xmap_name = RunName
    /\ entries = NoEntries
    /\ geometry = [pc |-> PcAfterLoad(entries, UiPatternCenter),
                   convention |-> ConventionAfterLoad(entries)]
    /\ colors = ColorsAfterLoad(entries)
    /\ phase_colors = [i \in DOMAIN phases |-> Item(colors, i - 1)]
    /\ ref_kwargs = ""
    /\ ProcessingIdle

LiveNext ==
    \/ \E t \in DOMAIN binnings : SelectBinning(t)
    \/ ToggleBox("ncc")
    \/ \E t \in RefKwargsTexts : EditRefKwargs(t)
    \/ LoadMasterPattern(<<"fe">>)
    \/ \E sel \in {<<>>, <<1>>} : (sel = <<>> \/ Len(table) > 2) /\ RemoveMasterPattern(sel)
    \/ \E name \in Names : name # xmap_name /\ LoadCrystalMap(name, TwoPixelMap)
    \/ RunRefinement
    \/ StartRun
    \/ ReadOptions
    \/ EvalOptions
    \/ RefinePhase /\ UNCHANGED <<jobvars, dlgvars>>
    \/ MergeStep /\ UNCHANGED <<jobvars, dlgvars>>
    \/ SaveMaps
    \/ GenerateProducts
    \/ EndRun
    \/ \E j \in AllIds : Notify(j) /\ UNCHANGED <<engvars, dlgvars>>

LiveSpec == LiveInit /\ [][LiveNext]_vars

\* refine_orientations is executing on a worker.
RunExecuting ==
    epc \in Reading \cup {"head", "loop", "save", "save_ang", "products", "finished", "failed"}

\* C26: from the moment a worker starts the run to the run's end, no step
\* changes the phases of self.phases or their colours.
C26_PhaseSetStable ==
    [][ (RunExecuting /\ RunExecuting') =>
            /\ phases' = phases
            /\ phase_colors' = phase_colors ]_vars

\* C28: the options a run works with are the options run_refinement handed
\* over with the job, and the files it writes are named after the crystal
\* map that was loaded then.
C28_SubmittedOptionsUsed ==
    /\ PastOptions => options = submitted.options
    /\ \A k \in DOMAIN written :
          written[k].file[2] = Splitext(submitted.xmap_name)[1]

\* ==================================================== pattern processing
\* PatternProcessingDialog (scripts/pattern_processing.py): the three step
\* boxes, the OK button, and apply_processing run as a job.

\* What a part of a file name can be: a step mark or something else.
Tags == StepSet \cup {"x"}

\* self.filenamebase.split("_"): the name part, then up to MaxTags parts.
FileBases ==
    { <<"scan">> \o t : t \in UNION {[1..n -> Tags] : n \in 0..MaxTags} }

\* processing_steps = self.filenamebase.split("_")[1:]
processing_steps(base) == Tail(base)

\* setupInitialSettings: a step is marked when one of the parts names it.
AlreadyOf(base) ==
    [k \in StepSet |-> \E i \in DOMAIN processing_steps(base) : processing_steps(base)[i] = k]

\* Mutant: a step is applied whenever its box is checked.
ShouldApply_IgnoresName(k, checked, already) == checked[k]

\* box.isChecked() and not self.already_indexed[step]
ShouldApply(k, checked, already) == checked[k] /\ ~already[k]

\* preview_processing: the extensions of the steps that would be applied,
\* in the order sb, db, anp.
Extensions(checked, already) ==
    SelectSeq(Steps, LAMBDA k : ShouldApply(k, checked, already))

\* The dialog as __init__ leaves it: the boxes of the marked steps checked
\* and disabled, the others unchecked, OK disabled, filenameEdit showing
\* the name of the pattern file, self.save_path that name in the folder of
\* the pattern file.
ProcessingInit ==
    /\ NoJobs
    /\ EngineIdle
    /\ signal_shape = <<1, 1>>
    /\ binning_entry = MissingEntry
    /\ combo = "None"
    /\ boxes = [phase |-> FALSE, orientation |-> FALSE, ncc |-> FALSE]
    /\ phases = <<>>
    /\ mp_paths = <<>>
    /\ table = <<>>
    /\ xmap_file = NoMap
    /\ xmap_rows = 0
    /\ ok_enabled = FALSE
    /\ xmap_name = ""
    /\ phase_colors = <<>>
    /\ geometry = [pc |-> UiPatternCenter, convention |-> "TSL"]
    /\ ref_kwargs = ""
    /\ NoSettings
    /\ filenamebase \in FileBases
    /\ already_indexed = AlreadyOf(filenamebase)
    /\ step_boxes = AlreadyOf(filenamebase)
    /\ pp_ok = FALSE
    /\ filename_edit = filenamebase
    /\ working_dir = PatternDir
    /\ pp_open = TRUE
    /\ pp_ask = FALSE
    /\ save_path = <<working_dir, filenamebase>>
    /\ gui_at = "idle"
    /\ pp_read = <<"", <<>>>>
    /\ clicks = 0
    /\ ppc = "idle"
    /\ applied = <<>>
    /\ saved_as = <<"none">>

refvars == <<signal_shape, binning_entry, combo, boxes, phases, mp_paths, table, xmap_file, xmap_rows,
             ok_enabled, xmap_name, phase_colors, entries, geometry, colors, ref_kwargs>>

\* The user checks or unchecks an enabled box: the box changes and its
\* stateChanged signal calls preview_processing, which the GUI thread is
\* in until PreviewProcessing ends it.
ToggleStep(k) ==
    /\ pp_open
    /\ ~pp_ask
    /\ gui_at = "idle"
    /\ clicks < MaxClicks
    /\ clicks' = clicks + 1
    /\ ~already_indexed[k]
    /\ step_boxes' = [step_boxes EXCEPT ![k] = ~@]
    /\ gui_at' = "preview"
    /\ UNCHANGED <<filenamebase, already_indexed, pp_ok, filename_edit, working_dir, save_path, pp_open, pp_ask,
                   ppc, pp_read, applied, saved_as>>
    /\ UNCHANGED <<jobvars, engvars, refvars>>

\* preview_processing, lines 197-219: the preview is copied and the steps
\* applied to it (197-211), then the OK button and the file name are set
\* (213, 215).  A step that raises on the preview ends the slot before it
\* sets them.
PreviewProcessing ==
    /\ gui_at = "preview"
    /\ gui_at' = "idle"
    /\ \E raises \in BOOLEAN :
          /\ raises => Extensions(step_boxes, already_indexed) # <<>>
          /\ IF raises
             THEN UNCHANGED <<pp_ok, filename_edit>>
             ELSE /\ pp_ok' = (Extensions(step_boxes, already_indexed) # <<>>)
                  /\ filename_edit' = filenamebase \o Extensions(step_boxes, already_indexed)
    /\ UNCHANGED <<clicks, filenamebase, already_indexed, step_boxes, working_dir, save_path, pp_open, pp_ask,
                   ppc, pp_read, applied, saved_as>>
    /\ UNCHANGED <<jobvars, engvars, refvars>>

\* The paths the file browser of the Browse button can return: folder and
\* file name.
BrowsePaths == {<<"q", <<"other">>>>}

\* setSavePath (the Browse button), statement by statement.  The click
\* enters the slot, whose getFile() (line 100) opens the file browser and
\* runs its event loop until the user chooses a file or cancels; the rest
\* runs whether or not the dialog was rejected meanwhile.  A cancelled
\* browser returns 0 and ends the slot.  Line 101 sets self.save_path to
\* the chosen path, line 102 self.working_dir to the folder of
\* self.save_path as it is then, line 104 filenameEdit to the file name of
\* self.save_path as it is then.
SetSavePath(dir, file) ==
    /\ \/ /\ gui_at = "idle"
          /\ pp_open
          /\ ~pp_ask
          /\ clicks < MaxClicks
          /\ clicks' = clicks + 1
          /\ gui_at' = "getFile"
          /\ UNCHANGED <<save_path, working_dir, filename_edit>>
       \/ /\ gui_at = "getFile"
          /\ gui_at' = "idle"
          /\ UNCHANGED <<clicks, save_path, working_dir, filename_edit>>
       \/ /\ gui_at = "getFile"
          /\ save_path' = <<dir, file>>
          /\ gui_at' = "line_102"
          /\ UNCHANGED <<clicks, working_dir, filename_edit>>
       \/ /\ gui_at = "line_102"
          /\ working_dir' = save_path[1]
          /\ gui_at' = "line_104"
          /\ UNCHANGED <<clicks, save_path, filename_edit>>
       \/ /\ gui_at = "line_104"
          /\ filename_edit' = save_path[2]
          /\ gui_at' = "idle"
          /\ UNCHANGED <<clicks, save_path, working_dir>>
    /\ UNCHANGED <<filenamebase, already_indexed, step_boxes, pp_ok, pp_open, pp_ask, ppc, pp_read, applied,
                   saved_as>>
    /\ UNCHANGED <<jobvars, engvars, refvars>>

\* close_dialog (the Cancel button): the dialog is rejected.
CloseDialog ==
    /\ pp_open
    /\ ~pp_ask
    /\ gui_at = "idle"
    /\ pp_open' = FALSE
    /\ UNCHANGED <<clicks, filenamebase, already_indexed, step_boxes, pp_ok, filename_edit, working_dir, save_path,
                   pp_ask, gui_at, ppc, pp_read, applied, saved_as>>
    /\ UNCHANGED <<jobvars, engvars, refvars>>

\* Lines 238-248: the dataset is loaded and the job handed over with the
\* path filenameEdit shows now.
SubmitProcessing == Submit("run_processing", filenamebase, working_dir, filename_edit)

\* run_processing (the OK button), lines 228-236: with the static box
\* checked the job is submitted; without, the warning box opens and its
\* event loop runs until the user answers.  run_processing does not close
\* the dialog: OK can be pressed again.  kp.load raising leaves
\* everything as it was.
RunProcessing ==
    /\ pp_open
    /\ pp_ok
    /\ ~pp_ask
    /\ gui_at = "idle"
    /\ Len(jobs) < MaxPpJobs
    /\ IF step_boxes["sb"]
       THEN SubmitProcessing /\ UNCHANGED pp_ask
       ELSE pp_ask' = TRUE /\ UNCHANGED jobvars
    /\ UNCHANGED <<clicks, filenamebase, already_indexed, step_boxes, pp_ok, filename_edit, working_dir, save_path,
                   pp_open, gui_at, ppc, pp_read, applied, saved_as>>
    /\ UNCHANGED <<engvars, refvars>>

\* The user answers the warning box, lines 236-248: Abort returns; after
\* Yes the dataset is loaded, which may raise, and the job submitted, on
\* the dialog as it is by then.
AnswerWarning(reply) ==
    /\ pp_ask
    /\ pp_ask' = FALSE
    /\ IF reply = "Yes"
       THEN \E loaded \in BOOLEAN :
               IF loaded THEN SubmitProcessing ELSE UNCHANGED jobvars
       ELSE UNCHANGED jobvars
    /\ UNCHANGED <<clicks, filenamebase, already_indexed, step_boxes, pp_ok, filename_edit, working_dir, save_path,
                   pp_open, gui_at, ppc, pp_read, applied, saved_as>>
    /\ UNCHANGED <<engvars, refvars>>

\* A worker picks the next job up and calls apply_processing; the jobs of
\* the dialog are followed one after the other.
StartProcessing ==
    /\ ppc = "idle"
    /\ \E j \in JobIds : Start(j)
    /\ ppc' = Steps[1]
    /\ pp_read' = <<"", <<>>>>
    /\ applied' = <<>>
    /\ saved_as' = <<"none">>
    /\ UNCHANGED <<clicks, filenamebase, already_indexed, step_boxes, pp_ok, filename_edit, working_dir, save_path,
                   pp_open, pp_ask, gui_at>>
    /\ UNCHANGED <<engvars, refvars>>

\* The stage after a step of apply_processing.
StageAfter(k) == IF k = "sb" THEN "db" ELSE IF k = "db" THEN "anp" ELSE "save"

\* Lines 259-267, one if statement: the box is read as it is now; the step
\* is applied to the dataset, and may raise, or is passed over.
ApplyStep ==
    /\ ppc \in StepSet
    /\ LET does == ShouldApply(ppc, step_boxes, already_indexed) IN
         /\ applied' = Append(applied,
                [step |-> ppc, checked |-> step_boxes[ppc], applied |-> does])
         /\ \/ ppc' = StageAfter(ppc)
            \/ does /\ ppc' = "failed"
    /\ UNCHANGED <<clicks, filenamebase, already_indexed, step_boxes, pp_ok, filename_edit, working_dir, save_path,
                   pp_open, pp_ask, gui_at, pp_read, saved_as>>
    /\ UNCHANGED <<jobvars, engvars, refvars>>

\* Lines 269-284 on the worker thread, read by read: self.working_dir is
\* read, then filenameEdit.text(), then self.save_path is assigned the two
\* joined (269-271), then dataset.save is called with self.save_path as it
\* is then (273-276); a save that raises is caught, printed, and the dialog
\* rejected.
SaveProcessed ==
    /\ \/ /\ ppc = "save"
          /\ pp_read' = <<working_dir, pp_read[2]>>
          /\ ppc' = "save_name"
          /\ UNCHANGED <<save_path, saved_as, pp_open>>
       \/ /\ ppc = "save_name"
          /\ pp_read' = <<pp_read[1], filename_edit>>
          /\ ppc' = "save_assign"
          /\ UNCHANGED <<save_path, saved_as, pp_open>>
       \/ /\ ppc = "save_assign"
          /\ save_path' = pp_read
          /\ ppc' = "save_write"
          /\ UNCHANGED <<pp_read, saved_as, pp_open>>
       \/ /\ ppc = "save_write"
          /\ ppc' = "finished"
          /\ \/ saved_as' = save_path /\ UNCHANGED pp_open
             \/ pp_open' = FALSE /\ UNCHANGED saved_as
          /\ UNCHANGED <<pp_read, save_path>>
    /\ UNCHANGED <<clicks, filenamebase, already_indexed, step_boxes, pp_ok, filename_edit, working_dir, pp_ask,
                   gui_at, applied>>
    /\ UNCHANGED <<jobvars, engvars, refvars>>

\* apply_processing returns, or the exception of a step reaches the worker.
EndProcessing ==
    /\ ppc \in {"finished", "failed"}
    /\ \E j \in JobIds : Finish(j, IF ppc = "failed" THEN "ValueError" ELSE NoError)
    /\ ppc' = "idle"
    /\ UNCHANGED <<clicks, filenamebase, already_indexed, step_boxes, pp_ok, filename_edit, working_dir, save_path,
                   pp_open, pp_ask, gui_at, pp_read, applied, saved_as>>
    /\ UNCHANGED <<engvars, refvars>>

ProcessingNext ==
    \/ \E k \in StepSet : ToggleStep(k)
    \/ PreviewProcessing
    \/ \E b \in BrowsePaths : SetSavePath(b[1], b[2])
    \/ CloseDialog
    \/ RunProcessing
    \/ \E reply \in {"Yes", "Abort"} : AnswerWarning(reply)
    \/ StartProcessing
    \/ ApplyStep
    \/ SaveProcessed
    \/ EndProcessing
    \/ \E j \in AllIds : Notify(j) /\ UNCHANGED <<engvars, dlgvars>>

ProcessingSpec == ProcessingInit /\ [][ProcessingNext]_vars

\* The file name marks a step: one of its parts after the first is the step.
MarkedByName(k) == \E i \in 2..Len(filenamebase) : filenamebase[i] = k

\* The steps the job has applied so far, in the order it applied them.
AppliedSteps == SelectSeq(applied, LAMBDA a : a.applied)

\* C30: every step the job has reached was applied exactly when its box was
\* checked at that moment and the file name does not mark it; the steps are
\* reached in the order sb, db, anp and the save comes after all three; no
\* step the name marks is applied; and whenever the dialog can take the
\* user's click (the GUI thread is in no slot) OK is enabled only while a
\* box of a step the name does not mark is checked.
C30_CheckedUnappliedStepsOnly ==
    /\ \A i \in DOMAIN applied :
          /\ applied[i].step = Steps[i]
          /\ applied[i].applied <=> (applied[i].checked /\ ~MarkedByName(applied[i].step))
    /\ \A i \in DOMAIN AppliedSteps : ~MarkedByName(AppliedSteps[i].step)
    /\ (ppc \in {"save", "save_name", "save_assign", "save_write", "finished"} \/ saved_as # <<"none">>) =>
          Len(applied) = Len(Steps)
    /\ (pp_ok /\ gui_at = "idle") => \E k \in StepSet : step_boxes[k] /\ ~MarkedByName(k)

\* A job on scan_sb with the dynamic and the averaging box checked applied
\* these two, in this order, passed the static step over, saved, and ended
\* Succeeded.
C30_Witness ==
    /\ filenamebase = <<"scan", "sb">>
    /\ ppc = "idle"
    /\ [i \in DOMAIN AppliedSteps |-> AppliedSteps[i].step] = <<"db", "anp">>
    /\ applied[1] = [step |-> "sb", checked |-> TRUE, applied |-> FALSE]
    /\ saved_as = <<PatternDir, <<"scan", "sb", "db", "anp">>>>
    /\ \E j \in JobIds : jobs[j].pc = "done" /\ jobs[j].state = "Succeeded"

====
